---- MODULE Spec2Model ----
(***************************************************************************)
(* Cost calculation, coverage allocation and effective-dated cost history  *)
(* of the position matrix application (app/services/cost_service.py,       *)
(* app/services/equipment_service.py and the models they read and write).  *)
(*                                                                         *)
(* Two specifications share the variables:                                 *)
(*   SpecCost  organization, requirement and coverage tables change and    *)
(*             the cost calculations are evaluated over every state;       *)
(*   SpecHist  catalog price writes run as interleaved transactions.       *)
(***************************************************************************)
EXTENDS Integers, Sequences, FiniteSets, TLC

(***************************************************************************)
(* Bounds of the model.                                                    *)
(***************************************************************************)
NumDepartments == 2
NumDivisions == 3
NumPositions == 3
MaxOps == 2
MaxTime == 1
NumSessions == 2
MaxItems == 1
MaxCalls == 3
MaxListed == 2
NumEmployees == 2

(***************************************************************************)
(* decimal.Decimal under the default context: 28 significant digits,       *)
(* ROUND_HALF_EVEN.  A value is [c, e]: coefficient digits (most           *)
(* significant first, no leading and no trailing zeros) and exponent, so   *)
(* that two records are equal exactly when the numbers are equal.          *)
(***************************************************************************)
Prec == 28

RECURSIVE StripLead(_)
StripLead(s) ==
    IF s # <<>> /\ Head(s) = 0 THEN StripLead(Tail(s)) ELSE s

RECURSIVE TrailZeros(_)
TrailZeros(s) ==
    IF s # <<>> /\ s[Len(s)] = 0
    THEN 1 + TrailZeros(SubSeq(s, 1, Len(s) - 1))
    ELSE 0

DecNorm(c, e) ==
    LET a == StripLead(c)
        z == TrailZeros(a)
    IN  IF a = <<>> THEN [c |-> <<>>, e |-> 0]
        ELSE [c |-> SubSeq(a, 1, Len(a) - z), e |-> e + z]

RECURSIVE IntDigits(_)
IntDigits(k) ==
    IF k = 0 THEN <<>> ELSE Append(IntDigits(k \div 10), k % 10)

RECURSIVE IncDigits(_)
IncDigits(s) ==
    IF s = <<>> THEN <<1>>
    ELSE IF s[Len(s)] < 9 THEN [s EXCEPT ![Len(s)] = @ + 1]
    ELSE Append(IncDigits(SubSeq(s, 1, Len(s) - 1)), 0)

\* Round a coefficient without leading zeros to Prec digits, half to even.
DecRound(c, e) ==
    IF Len(c) <= Prec THEN DecNorm(c, e)
    ELSE LET keep == SubSeq(c, 1, Prec)
             rest == SubSeq(c, Prec + 1, Len(c))
             tailNonZero == \E i \in 2..Len(rest) : rest[i] # 0
             up == \/ rest[1] > 5
                   \/ rest[1] = 5 /\ (tailNonZero \/ keep[Prec] % 2 = 1)
         IN  DecNorm(IF up THEN IncDigits(keep) ELSE keep, e + Len(rest))

RECURSIVE MulDigits(_, _, _)
MulDigits(s, n, carry) ==
    IF s = <<>> THEN IntDigits(carry)
    ELSE LET v == s[Len(s)] * n + carry
         IN  Append(MulDigits(SubSeq(s, 1, Len(s) - 1), n, v \div 10), v % 10)

RECURSIVE AddDigits(_, _, _)
AddDigits(s, t, carry) ==
    IF s = <<>> THEN IntDigits(carry)
    ELSE LET v == s[Len(s)] + t[Len(t)] + carry
         IN  Append(AddDigits(SubSeq(s, 1, Len(s) - 1),
                              SubSeq(t, 1, Len(t) - 1), v \div 10), v % 10)

Zeros(n) == [i \in 1..n |-> 0]

\* Decimal(k) for an int k >= 0, and a NUMERIC(p, 2) column value held as
\* an integer number of cents.
DecOfInt(k) == DecNorm(IntDigits(k), 0)
DecOfCents(k) == DecNorm(IntDigits(k), -2)

\* ZERO = Decimal("0.00")
ZERO == DecOfCents(0)

\* Decimal(n) * x and x * Decimal(n): the exact product, rounded to Prec.
DecMulInt(x, n) == DecRound(StripLead(MulDigits(x.c, n, 0)), x.e)

\* x + y: the exact sum, rounded to Prec.  With a zero operand the exact
\* sum is the other operand.
DecAdd(x, y) ==
    IF x.c = <<>> THEN DecRound(y.c, y.e)
    ELSE IF y.c = <<>> THEN DecRound(x.c, x.e)
    ELSE
    LET e  == IF x.e < y.e THEN x.e ELSE y.e
        cx == x.c \o Zeros(x.e - e)
        cy == y.c \o Zeros(y.e - e)
        L  == IF Len(cx) > Len(cy) THEN Len(cx) ELSE Len(cy)
        px == Zeros(L - Len(cx)) \o cx
        py == Zeros(L - Len(cy)) \o cy
    IN  DecRound(StripLead(AddDigits(px, py, 0)), e)

\* Long division of the digits `rest` (then of zeros) by n until the
\* remainder is 0 or Prec significant digits are out.
RECURSIVE DivLoop(_, _, _, _, _)
DivLoop(q, r, rest, e, n) ==
    IF rest # <<>>
    THEN LET cur == 10 * r + Head(rest)
         IN  DivLoop(Append(q, cur \div n), cur % n, Tail(rest), e, n)
    ELSE IF r = 0 \/ Len(StripLead(q)) >= Prec
    THEN [q |-> q, r |-> r, e |-> e]
    ELSE DivLoop(Append(q, (10 * r) \div n), (10 * r) % n, <<>>, e - 1, n)

\* x / Decimal(n), n > 0: the quotient correctly rounded to Prec digits.
DecDivInt(x, n) ==
    IF x.c = <<>> THEN [c |-> <<>>, e |-> 0]
    ELSE LET d  == DivLoop(<<>>, 0, x.c, x.e, n)
             sq == StripLead(d.q)
         IN  IF Len(sq) > Prec
             THEN DecRound(Append(sq, IF d.r > 0 THEN 1 ELSE 0), d.e - 1)
             ELSE LET up == \/ 2 * d.r > n
                            \/ 2 * d.r = n /\ sq[Len(sq)] % 2 = 1
                  IN  DecNorm(IF up THEN IncDigits(sq) ELSE sq, d.e)

(***************************************************************************)
(* State: the rows of the tables, one variable per table.                  *)
(***************************************************************************)
VARIABLES
    department,          \* org.department:   id -> [is_active]
    division,            \* org.division:     id -> [department_id, is_active]
    position,            \* org.position:     id -> [division_id, authorized_count, is_active]
    employee,            \* org.employee:     id -> [position_id, is_active]
    user,                \* auth.user with its auth.user_scope rows: id -> [employee_id, is_active, scopes]
    software_type,       \* equip.software_type: id -> [type_name, is_active]
    requirement_history, \* budget.requirement_history: position_id -> its rows, in id order
    audit_log,           \* audit.audit_log: [action_type, entity_type] -> number of committed rows
    hr_sync_log,         \* audit.hr_sync_log rows in id order
    hardware_type,       \* equip.hardware_type: id -> [estimated_cost, is_active]
    hardware,            \* equip.hardware:   id -> [estimated_cost, is_active]
    software,            \* equip.software:   id -> [license_model, cost_per_license, total_cost, is_active]
    position_hardware,   \* equip.position_hardware rows
    position_software,   \* equip.position_software rows
    software_coverage,   \* equip.software_coverage rows
    hardware_type_cost_history,  \* budget.hardware_type_cost_history rows
    hardware_cost_history,  \* budget.hardware_cost_history rows
    software_cost_history,  \* budget.software_cost_history rows
    session,             \* per request: the SQLAlchemy session and the handler's position
    row_lock,            \* <<table, id, session>>: exclusive row locks held until commit
    now,                 \* the clock read by datetime.now() and SYSUTCDATETIME()
    price_writes,        \* catalog row -> committed creations and price changes
    ops                  \* number of operations run so far (bounded by MaxOps)

orgVars == <<department, division, position>>
userVars == <<employee, user>>
trailVars == <<requirement_history, audit_log, hr_sync_log>>
reqVars == <<position_hardware, position_software>>
typeVars == <<hardware_type, hardware_type_cost_history>>
catalogVars == <<hardware, software>>
histVars == <<hardware_cost_history, software_cost_history, session, row_lock,
              now, price_writes>>
vars == <<department, division, position, employee, user, software_type,
          requirement_history, audit_log, hr_sync_log, hardware_type, hardware, software,
          position_hardware, position_software, software_coverage,
          hardware_type_cost_history, hardware_cost_history,
          software_cost_history, session, row_lock, now, price_writes, ops>>

\* SQL NULL in a nullable numeric or foreign-key column.
NULL == -1

Departments == 1..NumDepartments
Divisions == 1..NumDivisions
Positions == 1..NumPositions
Employees == 1..NumEmployees

\* Values the inputs are drawn from.
AuthCounts == {0, 10, 20, 70}
Quantities == {1, 2}
TenantCosts == {NULL, 0, 10000, 900000}
HardwareIds == {1}
PerUserId == 1
TenantId == 2

\* A SoftwareCoverage row.
Coverage(sw, scope, dept, div, pos) ==
    [software_id |-> sw, scope_type |-> scope,
     department_id |-> dept, division_id |-> div, position_id |-> pos]

\* The coverage rows that may be attached to a software item: every scope
\* type, scope ids of existing rows, of a deleted row (one past the last
\* id) and no scope id at all.
CoverageRows(sw) ==
    {Coverage(sw, "organization", NULL, NULL, NULL)}
    \cup {Coverage(sw, "department", d, NULL, NULL) :
             d \in 1..(NumDepartments + 1) \cup {NULL}}
    \cup {Coverage(sw, "division", NULL, d, NULL) :
             d \in 1..(NumDivisions + 1) \cup {NULL}}
    \cup {Coverage(sw, "position", NULL, NULL, p) :
             p \in 1..(NumPositions + 1) \cup {NULL}}

(***************************************************************************)
(* cost_service.py                                                         *)
(***************************************************************************)

\* The rows of a requirement query in ascending order of <<item id,
\* quantity>>: the order in which a query without ORDER BY is taken to
\* return them.
RECURSIVE HwRowSeq(_)
HwRowSeq(S) ==
    IF S = {} THEN <<>>
    ELSE LET m == CHOOSE x \in S : \A y \in S :
                      \/ x.hardware_id < y.hardware_id
                      \/ x.hardware_id = y.hardware_id /\ x.quantity <= y.quantity
         IN  <<m>> \o HwRowSeq(S \ {m})

RECURSIVE SwRowSeq(_)
SwRowSeq(S) ==
    IF S = {} THEN <<>>
    ELSE LET m == CHOOSE x \in S : \A y \in S :
                      \/ x.software_id < y.software_id
                      \/ x.software_id = y.software_id /\ x.quantity <= y.quantity
         IN  <<m>> \o SwRowSeq(S \ {m})

RECURSIVE IdSeq(_)
IdSeq(S) ==
    IF S = {} THEN <<>>
    ELSE LET m == CHOOSE x \in S : \A y \in S : x <= y
         IN  <<m>> \o IdSeq(S \ {m})

\* Python's += over a list of Decimals, starting from ZERO.
RECURSIVE DecSum(_)
DecSum(seq) ==
    IF seq = <<>> THEN ZERO
    ELSE DecAdd(DecSum(SubSeq(seq, 1, Len(seq) - 1)), seq[Len(seq)])

RECURSIVE IntSum(_)
IntSum(seq) ==
    IF seq = <<>> THEN 0 ELSE Head(seq) + IntSum(Tail(seq))

\* A raised exception, as the result of a call.
Raise(type, what, id) ==
    [raised |-> type, message |-> <<what, id, "not found.">>]

\* The position ids one coverage row expands to.
covered_by_row(cov) ==
    IF cov.scope_type = "organization"
    THEN {p \in DOMAIN position : position[p].is_active}
    ELSE IF cov.scope_type = "department" /\ cov.department_id # NULL
    THEN {p \in DOMAIN position :
             /\ position[p].division_id \in DOMAIN division
             /\ division[position[p].division_id].department_id = cov.department_id
             /\ position[p].is_active}
    ELSE IF cov.scope_type = "division" /\ cov.division_id # NULL
    THEN {p \in DOMAIN position :
             /\ position[p].division_id = cov.division_id
             /\ position[p].is_active}
    ELSE IF cov.scope_type = "position" /\ cov.position_id # NULL
    THEN {cov.position_id}
    ELSE {}

\* SoftwareCoverage.query.filter_by(software_id=...).all()
coverages(software_id) == {c \in software_coverage : c.software_id = software_id}

\* position_ids.update(...) over the coverage rows: a set union.
covered_position_ids(rows) == UNION {covered_by_row(cov) : cov \in rows}

_get_covered_position_ids(software_id) == covered_position_ids(coverages(software_id))

\* Variant: the headcount query without its is_active filter.
total_headcount_any_status(ids) ==
    LET rows == IdSeq({p \in DOMAIN position : p \in ids})
    IN  IntSum([i \in 1..Len(rows) |-> position[rows[i]].authorized_count])

\* SELECT COALESCE(SUM(authorized_count), 0) WHERE id IN ids AND is_active.
total_headcount(ids) ==
    LET rows == IdSeq({p \in DOMAIN position : p \in ids /\ position[p].is_active})
    IN  IntSum([i \in 1..Len(rows) |-> position[rows[i]].authorized_count])

RECURSIVE RowHeadcountSum(_)
RowHeadcountSum(rows) ==
    IF rows = {} THEN 0
    ELSE LET cov == CHOOSE c \in rows : TRUE
         IN  total_headcount(covered_by_row(cov)) + RowHeadcountSum(rows \ {cov})

\* Variant: the headcount summed row by row, a position under two rows
\* counted twice.
headcount_of_rows_per_row(rows) == RowHeadcountSum(rows)

\* The allocation denominator a set of coverage rows gives.
headcount_of_rows(rows) == total_headcount(covered_position_ids(rows))

covered_headcount(software_id) == headcount_of_rows(coverages(software_id))

_calculate_tenant_share_for_position(sw_id, position_id) ==
    LET sw == software[sw_id]
        position_ids == _get_covered_position_ids(sw_id)
        headcount == covered_headcount(sw_id)
    IN  IF sw.total_cost = NULL \/ sw.total_cost = 0 THEN ZERO
        ELSE IF position_ids = {} THEN ZERO
        ELSE IF headcount = 0 THEN ZERO
        ELSE DecDivInt(DecOfCents(sw.total_cost), headcount)

\* Variant: the tenant share multiplied by the requirement's quantity.
SoftwareCostLine_times_quantity(req, position_id) ==
    LET sw == software[req.software_id]
        unit_cost ==
            IF sw.license_model = "per_user"
            THEN (IF sw.cost_per_license = NULL THEN ZERO
                  ELSE DecOfCents(sw.cost_per_license))
            ELSE _calculate_tenant_share_for_position(req.software_id, position_id)
        line_total == DecMulInt(unit_cost, req.quantity)
    IN  [software_id |-> req.software_id,
         license_model |-> sw.license_model,
         quantity |-> req.quantity,
         unit_cost |-> unit_cost,
         line_total |-> line_total,
         position_total |-> DecMulInt(line_total, position[position_id].authorized_count)]

\* One pass of the software loop: the line of one requirement row.
SoftwareCostLine(req, position_id) ==
    LET sw == software[req.software_id]
        unit_cost ==
            IF sw.license_model = "per_user"
            THEN (IF sw.cost_per_license = NULL THEN ZERO
                  ELSE DecOfCents(sw.cost_per_license))
            ELSE _calculate_tenant_share_for_position(req.software_id, position_id)
        line_total ==
            IF sw.license_model = "per_user"
            THEN DecMulInt(unit_cost, req.quantity)
            ELSE unit_cost
    IN  [software_id |-> req.software_id,
         license_model |-> sw.license_model,
         quantity |-> req.quantity,
         unit_cost |-> unit_cost,
         line_total |-> line_total,
         position_total |-> DecMulInt(line_total, position[position_id].authorized_count)]

\* Variant: the totals leave out the authorized_count multiplier.
position_cost_summary_no_multiplier(position_id) ==
    LET pos == position[position_id]
        hw_reqs == HwRowSeq({r \in position_hardware : r.position_id = position_id})
        sw_reqs == SwRowSeq({r \in position_software : r.position_id = position_id})
        software_lines == [i \in 1..Len(sw_reqs) |->
                              SoftwareCostLine(sw_reqs[i], position_id)] \o <<>>
        software_total_per_person ==
            DecSum([i \in 1..Len(sw_reqs) |-> software_lines[i].line_total])
    IN  IF hw_reqs # <<>>
        THEN [raised |-> "AttributeError",
              message |-> <<"PositionHardware", position_id, "hardware_type">>]
        ELSE [raised |-> "None",
              position_id |-> position_id,
              division_id |-> pos.division_id,
              department_id |-> division[pos.division_id].department_id,
              authorized_count |-> pos.authorized_count,
              hardware_lines |-> <<>>,
              software_lines |-> software_lines,
              hardware_total_per_person |-> ZERO,
              software_total_per_person |-> software_total_per_person,
              total_per_person |-> DecAdd(ZERO, software_total_per_person),
              hardware_total |-> ZERO,
              software_total |-> software_total_per_person,
              grand_total |-> DecAdd(ZERO, software_total_per_person)]

\* calculate_position_cost after the position has been found.  The lines
\* are built once, as a tuple (\o <<>>), and the totals read them.
position_cost_summary(position_id) ==
    LET pos == position[position_id]
        hw_reqs == HwRowSeq({r \in position_hardware : r.position_id = position_id})
        sw_reqs == SwRowSeq({r \in position_software : r.position_id = position_id})
        software_lines == [i \in 1..Len(sw_reqs) |->
                              SoftwareCostLine(sw_reqs[i], position_id)] \o <<>>
        software_total_per_person ==
            DecSum([i \in 1..Len(sw_reqs) |-> software_lines[i].line_total])
        software_total ==
            DecSum([i \in 1..Len(sw_reqs) |-> software_lines[i].position_total])
    IN  \* The first pass of the hardware loop reads req.hardware_type, an
        \* attribute PositionHardware does not have.
        IF hw_reqs # <<>>
        THEN [raised |-> "AttributeError",
              message |-> <<"PositionHardware", position_id, "hardware_type">>]
        \* req.software is None for a row whose product is missing, and
        \* the loop reads its license_model.
        ELSE IF \E i \in 1..Len(sw_reqs) : sw_reqs[i].software_id \notin DOMAIN software
        THEN [raised |-> "AttributeError",
              message |-> <<"NoneType", position_id, "license_model">>]
        ELSE [raised |-> "None",
              position_id |-> position_id,
              division_id |-> pos.division_id,
              department_id |-> division[pos.division_id].department_id,
              authorized_count |-> pos.authorized_count,
              hardware_lines |-> <<>>,
              software_lines |-> software_lines,
              hardware_total_per_person |-> ZERO,
              software_total_per_person |-> software_total_per_person,
              total_per_person |-> DecAdd(ZERO, software_total_per_person),
              hardware_total |-> ZERO,
              software_total |-> software_total,
              grand_total |-> DecAdd(ZERO, software_total)]

\* Variant: a missing position priced as an empty summary.
calculate_position_cost_zero_summary(position_id) ==
    IF position_id \notin DOMAIN position
    THEN [raised |-> "None",
          position_id |-> position_id,
          authorized_count |-> 0,
          hardware_lines |-> <<>>,
          software_lines |-> <<>>,
          hardware_total_per_person |-> ZERO,
          software_total_per_person |-> ZERO,
          total_per_person |-> ZERO,
          hardware_total |-> ZERO,
          software_total |-> ZERO,
          grand_total |-> ZERO]
    ELSE position_cost_summary(position_id)

calculate_position_cost(position_id) ==
    IF position_id \notin DOMAIN position
    THEN Raise("ValueError", "Position ID", position_id)
    ELSE position_cost_summary(position_id)

\* The first element of a sequence of results that is a raised exception.
RECURSIVE FirstRaised(_)
FirstRaised(seq) ==
    IF seq = <<>> THEN [raised |-> "None"]
    ELSE IF Head(seq).raised # "None" THEN Head(seq)
    ELSE FirstRaised(Tail(seq))

\* Variant: the division rollup takes every position of the division,
\* active or not.
calculate_division_costs_all_positions(division_id) ==
    IF division_id \notin DOMAIN division
    THEN Raise("ValueError", "Division ID", division_id)
    ELSE
    LET positions == IdSeq({p \in DOMAIN position :
                               position[p].division_id = division_id})
        costs == [i \in 1..Len(positions) |-> calculate_position_cost(positions[i])] \o <<>>
        hardware_total == DecSum([i \in 1..Len(positions) |-> costs[i].hardware_total])
        software_total == DecSum([i \in 1..Len(positions) |-> costs[i].software_total])
    IN  IF FirstRaised(costs).raised # "None" THEN FirstRaised(costs)
        ELSE [raised |-> "None",
              division_id |-> division_id,
              department_id |-> division[division_id].department_id,
              position_count |-> Len(positions),
              total_authorized |->
                  IntSum([i \in 1..Len(positions) |->
                             position[positions[i]].authorized_count]),
              hardware_total |-> hardware_total,
              software_total |-> software_total,
              grand_total |-> DecAdd(hardware_total, software_total)]

calculate_division_costs(division_id) ==
    IF division_id \notin DOMAIN division
    THEN Raise("ValueError", "Division ID", division_id)
    ELSE
    LET positions == IdSeq({p \in DOMAIN position :
                               /\ position[p].division_id = division_id
                               /\ position[p].is_active})
        costs == [i \in 1..Len(positions) |-> calculate_position_cost(positions[i])] \o <<>>
        hardware_total == DecSum([i \in 1..Len(positions) |-> costs[i].hardware_total])
        software_total == DecSum([i \in 1..Len(positions) |-> costs[i].software_total])
    IN  IF FirstRaised(costs).raised # "None" THEN FirstRaised(costs)
        ELSE [raised |-> "None",
              division_id |-> division_id,
              department_id |-> division[division_id].department_id,
              position_count |-> Len(positions),
              total_authorized |->
                  IntSum([i \in 1..Len(positions) |->
                             position[positions[i]].authorized_count]),
              hardware_total |-> hardware_total,
              software_total |-> software_total,
              grand_total |-> DecAdd(hardware_total, software_total)]

calculate_department_costs(department_id) ==
    IF department_id \notin DOMAIN department
    THEN Raise("ValueError", "Department ID", department_id)
    ELSE
    LET divisions == IdSeq({d \in DOMAIN division :
                               /\ division[d].department_id = department_id
                               /\ division[d].is_active})
        costs == [i \in 1..Len(divisions) |-> calculate_division_costs(divisions[i])] \o <<>>
        hardware_total == DecSum([i \in 1..Len(divisions) |-> costs[i].hardware_total])
        software_total == DecSum([i \in 1..Len(divisions) |-> costs[i].software_total])
    IN  IF FirstRaised(costs).raised # "None" THEN FirstRaised(costs)
        ELSE [raised |-> "None",
              department_id |-> department_id,
              division_count |-> Len(divisions),
              position_count |->
                  IntSum([i \in 1..Len(divisions) |-> costs[i].position_count]),
              total_authorized |->
                  IntSum([i \in 1..Len(divisions) |-> costs[i].total_authorized]),
              hardware_total |-> hardware_total,
              software_total |-> software_total,
              grand_total |-> DecAdd(hardware_total, software_total)]

calculate_organization_costs ==
    LET departments == IdSeq({d \in DOMAIN department : department[d].is_active})
        costs == [i \in 1..Len(departments) |-> calculate_department_costs(departments[i])] \o <<>>
        hardware_total == DecSum([i \in 1..Len(departments) |-> costs[i].hardware_total])
        software_total == DecSum([i \in 1..Len(departments) |-> costs[i].software_total])
    IN  IF FirstRaised(costs).raised # "None" THEN FirstRaised(costs)
        ELSE [raised |-> "None",
              department_count |-> Len(departments),
              division_count |->
                  IntSum([i \in 1..Len(departments) |-> costs[i].division_count]),
              position_count |->
                  IntSum([i \in 1..Len(departments) |-> costs[i].position_count]),
              total_authorized |->
                  IntSum([i \in 1..Len(departments) |-> costs[i].total_authorized]),
              hardware_total |-> hardware_total,
              software_total |-> software_total,
              grand_total |-> DecAdd(hardware_total, software_total)]

(***************************************************************************)
(* SpecCost: the tables cost_service.py reads, changed by the HR sync, by  *)
(* the requirement service and by coverage maintenance.  Only the columns  *)
(* the cost calculation reads are tracked here.                            *)
(***************************************************************************)

Sessions == 1..NumSessions

\* A session between requests.
Idle ==
    [pc |-> "idle", table |-> "none", id |-> NULL, loaded |-> <<>>,
     attrs |-> <<>>, cost_changed |-> FALSE, current |-> NULL,
     end_date |-> NULL, effective_date |-> NULL]

\* Position p belongs to division PosDiv(p), division d to department
\* DivDept(d): positions 1..NumDivisions in divisions of their own, later
\* ones sharing them; likewise divisions over departments.
PosDiv(p) == ((p - 1) % NumDivisions) + 1
DivDept(d) == ((d - 1) % NumDepartments) + 1
InitAuth(p) == IF p = 1 THEN 10 ELSE IF p = 2 THEN 20 ELSE 70

\* No employee, user, software type, history, audit or sync-log row yet.
InitTrail ==
    /\ employee = <<>>
    /\ user = <<>>
    /\ software_type = <<>>
    /\ requirement_history = <<>>
    /\ audit_log = <<>>
    /\ hr_sync_log = <<>>

InitOrg ==
    /\ department = [d \in Departments |-> [is_active |-> TRUE]]
    /\ division = [d \in Divisions |->
                      [department_id |-> DivDept(d), is_active |-> TRUE]]
    /\ position = [p \in Positions |->
                      [division_id |-> PosDiv(p),
                       authorized_count |-> InitAuth(p),
                       is_active |-> TRUE]]

InitHistIdle ==
    /\ hardware_type = <<>>
    /\ hardware_type_cost_history = {}
    /\ hardware_cost_history = {}
    /\ software_cost_history = {}
    /\ session = <<>>
    /\ row_lock = {}
    /\ now = 0
    /\ price_writes = <<>>

InitCost ==
    /\ InitTrail
    /\ InitOrg
    /\ hardware = [h \in HardwareIds |->
                      [estimated_cost |-> 120000, is_active |-> TRUE]]
    /\ \E tc \in TenantCosts :
           software = (PerUserId :> [license_model |-> "per_user",
                                     cost_per_license |-> 20000,
                                     total_cost |-> 0, is_active |-> TRUE])
                   @@ (TenantId :> [license_model |-> "tenant",
                                    cost_per_license |-> 0,
                                    total_cost |-> tc, is_active |-> TRUE])
    /\ position_hardware = {}
    /\ position_software = {}
    /\ software_coverage = {}
    /\ InitHistIdle
    /\ ops = 0

\* audit_service.log_change: one more AuditLog row, added and flushed; it is
\* in the table once the caller commits.
log_change(log, action_type, entity_type) ==
    LET key == <<action_type, entity_type>>
    IN  [k \in DOMAIN log \cup {key} |->
            IF k = key THEN (IF key \in DOMAIN log THEN log[key] ELSE 0) + 1
            ELSE log[k]]

\* log_change called n times with the same arguments.
RECURSIVE log_changes(_, _, _, _)
log_changes(log, action_type, entity_type, n) ==
    IF n = 0 THEN log
    ELSE log_changes(log_change(log, action_type, entity_type),
                     action_type, entity_type, n - 1)

\* hr_sync_service._sync_departments: a code of the response is created or
\* made active; when the response is not empty, the other rows are made
\* inactive.  Codes stand for the rows' ids.
_sync_departments(api_departments) ==
    [d \in DOMAIN department \cup api_departments |->
        IF d \in api_departments THEN [is_active |-> TRUE]
        ELSE IF api_departments # {} THEN [is_active |-> FALSE]
        ELSE department[d]]

\* _sync_divisions without the guard on an empty response: the rows whose
\* code the response omits are made inactive, whatever the response.
_sync_divisions_no_guard(api_divisions, departments) ==
    LET found == {d \in DOMAIN api_divisions : api_divisions[d] \in DOMAIN departments}
    IN  [d \in DOMAIN division \cup found |->
            IF d \in found
            THEN [department_id |-> api_divisions[d], is_active |-> TRUE]
            ELSE IF d \notin DOMAIN api_divisions
            THEN [division[d] EXCEPT !.is_active = FALSE]
            ELSE division[d]]

\* hr_sync_service._sync_divisions: a division whose department_code has no
\* row is skipped; the others are created or updated and made active; when
\* the response is not empty, rows whose code it omits are made inactive.
_sync_divisions(api_divisions, departments) ==
    LET found == {d \in DOMAIN api_divisions : api_divisions[d] \in DOMAIN departments}
    IN  [d \in DOMAIN division \cup found |->
            IF d \in found
            THEN [department_id |-> api_divisions[d], is_active |-> TRUE]
            ELSE IF DOMAIN api_divisions # {} /\ d \notin DOMAIN api_divisions
            THEN [division[d] EXCEPT !.is_active = FALSE]
            ELSE division[d]]

\* hr_sync_service._sync_positions.
_sync_positions(api_positions, divisions) ==
    LET found == {p \in DOMAIN api_positions :
                     api_positions[p].division_code \in DOMAIN divisions}
    IN  [p \in DOMAIN position \cup found |->
            IF p \in found
            THEN [division_id |-> api_positions[p].division_code,
                  authorized_count |-> api_positions[p].authorized_count,
                  is_active |-> TRUE]
            ELSE IF DOMAIN api_positions # {} /\ p \notin DOMAIN api_positions
            THEN [position[p] EXCEPT !.is_active = FALSE]
            ELSE position[p]]

\* hr_sync_service._sync_employees: returns at once on an empty response.
_sync_employees(api_employees, positions) ==
    LET found == {e \in DOMAIN api_employees : api_employees[e] \in DOMAIN positions}
    IN  IF DOMAIN api_employees = {} THEN employee
        ELSE [e \in DOMAIN employee \cup found |->
                 IF e \in found
                 THEN [position_id |-> api_employees[e], is_active |-> TRUE]
                 ELSE IF e \notin DOMAIN api_employees
                 THEN [employee[e] EXCEPT !.is_active = FALSE]
                 ELSE employee[e]]

\* The auth.user_scope row of a division.
DivisionScope(division_id) ==
    [scope_type |-> "division", department_id |-> NULL, division_id |-> division_id]

\* hr_sync_service._provision_users.  Employee e has the e-mail address e
\* and a user is keyed by its address.  An active employee no user is
\* linked to is linked to the active user of its address (who gets a
\* division scope if it has no scope), or gets a new user scoped to the
\* division of its position; then the active users of inactive employees
\* are made inactive.
_provision_users(employees, positions) ==
    LET linked == {user[u].employee_id : u \in DOMAIN user}
        todo == {e \in DOMAIN employees : employees[e].is_active /\ e \notin linked}
        by_email == {u \in DOMAIN user : user[u].is_active}
        scope(e) == DivisionScope(positions[employees[e].position_id].division_id)
        created == {e \in todo : e \notin by_email}
        provisioned ==
            [u \in DOMAIN user \cup created |->
                IF u \in created
                THEN [employee_id |-> u, is_active |-> TRUE, scopes |-> {scope(u)}]
                ELSE IF u \in todo /\ user[u].employee_id = NULL
                THEN [user[u] EXCEPT !.employee_id = u,
                                     !.scopes = IF @ = {} THEN {scope(u)} ELSE @]
                ELSE user[u]]
        gone == {u \in DOMAIN provisioned :
                    /\ provisioned[u].is_active
                    /\ provisioned[u].employee_id \in DOMAIN employees
                    /\ ~employees[provisioned[u].employee_id].is_active}
    IN  [users |-> [u \in DOMAIN provisioned |->
                       IF u \in gone THEN [provisioned[u] EXCEPT !.is_active = FALSE]
                       ELSE provisioned[u]],
         created |-> Cardinality(created),
         deactivated |-> Cardinality(gone)]

\* The tables as the try block of run_full_sync leaves them for the
\* response api, up to its commit.
SyncedTables(api) ==
    LET departments == _sync_departments(api.departments)
        divisions == _sync_divisions(api.divisions, departments)
        positions == _sync_positions(api.positions, divisions)
        employees == _sync_employees(api.employees, positions)
        user_stats == _provision_users(employees, positions)
    IN  [department |-> departments, division |-> divisions,
         position |-> positions, employee |-> employees,
         user |-> user_stats.users,
         audit_log |->
             log_change(
                 log_changes(
                     log_changes(audit_log, "CREATE", "auth.user", user_stats.created),
                     "UPDATE", "auth.user", user_stats.deactivated),
                 "SYNC", "org.hr_sync")]

\* hr_sync_service.run_full_sync, a run that succeeds with no other request
\* in between: _create_sync_log, the four passes, _provision_users,
\* _complete_sync_log, the SYNC audit entry and the one commit.
run_full_sync(api) ==
    /\ ops < MaxOps
    /\ LET done == SyncedTables(api)
       IN  /\ department' = done.department
           /\ division' = done.division
           /\ position' = done.position
           /\ employee' = done.employee
           /\ user' = done.user
           /\ audit_log' = done.audit_log
    /\ hr_sync_log' = Append(hr_sync_log,
                             [status |-> "completed", error_message |-> "None"])
    /\ ops' = ops + 1
    /\ UNCHANGED <<software_type, requirement_history, typeVars, catalogVars,
                   reqVars, software_coverage, histVars>>

\* What the HR system returns: the organization as it is now, with one
\* department, division or position dropped, one inactive one brought back
\* or one position's authorized_count changed; no employees.
ApiNow ==
    [departments |-> {d \in DOMAIN department : department[d].is_active},
     divisions |-> [d \in {x \in DOMAIN division : division[x].is_active} |->
                       division[d].department_id],
     positions |-> [p \in {q \in DOMAIN position : position[q].is_active} |->
                       [division_code |-> position[p].division_id,
                        authorized_count |-> position[p].authorized_count]],
     employees |-> <<>>]

ApiResponses ==
    {[ApiNow EXCEPT !.departments = ApiNow.departments \ {d}] : d \in Departments}
    \cup {[ApiNow EXCEPT !.departments = ApiNow.departments \cup {d}] : d \in Departments}
    \cup {[ApiNow EXCEPT !.divisions =
              [x \in (DOMAIN ApiNow.divisions) \ {d} |-> ApiNow.divisions[x]]] :
        d \in Divisions}
    \cup {[ApiNow EXCEPT !.divisions =
              [x \in (DOMAIN ApiNow.divisions) \cup {d} |-> DivDept(x)]] :
        d \in Divisions}
    \cup {[ApiNow EXCEPT !.positions =
              [p \in (DOMAIN ApiNow.positions) \ {q} |-> ApiNow.positions[p]]] :
        q \in Positions}
    \cup {[ApiNow EXCEPT !.positions =
              [p \in (DOMAIN ApiNow.positions) \cup {q} |->
                  IF p = q THEN [division_code |-> PosDiv(q), authorized_count |-> a]
                  ELSE ApiNow.positions[p]]] :
        q \in Positions, a \in AuthCounts}

\* A session has deleted rows of the position and not committed: the rows
\* are locked, and a statement of another request that reads the
\* position's rows waits for the commit.
Deleting(position_id) ==
    \E s \in DOMAIN session :
        /\ session[s].pc = "deleted"
        /\ session[s].id = position_id
        /\ session[s].loaded.software # {}

\* requirement_service._record_requirement_history: one more row of the
\* position in budget.requirement_history.
_record_requirement_history(history, position_id, item_type, item_id,
                            action_type, quantity) ==
    LET row == [item_type |-> item_type, item_id |-> item_id,
                action_type |-> action_type, quantity |-> quantity]
    IN  [p \in DOMAIN history \cup {position_id} |->
            IF p # position_id THEN history[p]
            ELSE IF p \in DOMAIN history THEN Append(history[p], row)
            ELSE <<row>>]

\* requirement_service.add_hardware_requirement: insert the row, or update
\* the quantity of the row the position already has for the item.
add_hardware_requirement(position_id, hardware_id, quantity) ==
    /\ ops < MaxOps
    /\ LET existing == {r \in position_hardware :
                           r.position_id = position_id /\ r.hardware_id = hardware_id}
           req == [position_id |-> position_id, hardware_id |-> hardware_id,
                   quantity |-> quantity]
       IN  /\ position_hardware' = (position_hardware \ existing) \cup {req}
           /\ requirement_history' =
                  _record_requirement_history(
                      requirement_history, position_id, "hardware", hardware_id,
                      IF existing = {} THEN "ADDED" ELSE "MODIFIED", quantity)
           /\ audit_log' = log_change(audit_log,
                                      IF existing = {} THEN "CREATE" ELSE "UPDATE",
                                      "equip.position_hardware")
    /\ ops' = ops + 1
    /\ UNCHANGED <<orgVars, userVars, software_type, hr_sync_log, typeVars,
                   catalogVars, position_software, software_coverage, histVars>>

\* requirement_service.remove_hardware_requirement: hard delete of the row.
remove_hardware_requirement(req) ==
    /\ ops < MaxOps
    /\ req \in position_hardware
    /\ position_hardware' = position_hardware \ {req}
    /\ requirement_history' =
           _record_requirement_history(
               requirement_history, req.position_id, "hardware", req.hardware_id,
               "REMOVED", req.quantity)
    /\ audit_log' = log_change(audit_log, "DELETE", "equip.position_hardware")
    /\ ops' = ops + 1
    /\ UNCHANGED <<orgVars, userVars, software_type, hr_sync_log, typeVars,
                   catalogVars, position_software, software_coverage, histVars>>

\* Variant: the row is inserted without the lookup of an existing one,
\* into a table without the unique constraint.
add_software_requirement_always_inserts(position_id, software_id, quantity) ==
    /\ ops < MaxOps
    /\ ~Deleting(position_id)
    /\ LET req == [position_id |-> position_id, software_id |-> software_id,
                   quantity |-> quantity]
       IN  /\ position_software' = position_software \cup {req}
           /\ requirement_history' =
                  _record_requirement_history(
                      requirement_history, position_id, "software", software_id,
                      "ADDED", quantity)
           /\ audit_log' = log_change(audit_log, "CREATE", "equip.position_software")
    /\ ops' = ops + 1
    /\ UNCHANGED <<orgVars, userVars, software_type, hr_sync_log, typeVars,
                   catalogVars, position_hardware, software_coverage, histVars>>

add_software_requirement(position_id, software_id, quantity) ==
    /\ ops < MaxOps
    /\ ~Deleting(position_id)
    /\ LET existing == {r \in position_software :
                           r.position_id = position_id /\ r.software_id = software_id}
           req == [position_id |-> position_id, software_id |-> software_id,
                   quantity |-> quantity]
       IN  /\ position_software' = (position_software \ existing) \cup {req}
           /\ requirement_history' =
                  _record_requirement_history(
                      requirement_history, position_id, "software", software_id,
                      IF existing = {} THEN "ADDED" ELSE "MODIFIED", quantity)
           /\ audit_log' = log_change(audit_log,
                                      IF existing = {} THEN "CREATE" ELSE "UPDATE",
                                      "equip.position_software")
    /\ ops' = ops + 1
    /\ UNCHANGED <<orgVars, userVars, software_type, hr_sync_log, typeVars,
                   catalogVars, position_hardware, software_coverage, histVars>>

remove_software_requirement(req) ==
    /\ ops < MaxOps
    /\ req \in position_software
    /\ ~Deleting(req.position_id)
    /\ position_software' = position_software \ {req}
    /\ requirement_history' =
           _record_requirement_history(
               requirement_history, req.position_id, "software", req.software_id,
               "REMOVED", req.quantity)
    /\ audit_log' = log_change(audit_log, "DELETE", "equip.position_software")
    /\ ops' = ops + 1
    /\ UNCHANGED <<orgVars, userVars, software_type, hr_sync_log, typeVars,
                   catalogVars, position_hardware, software_coverage, histVars>>

\* A SoftwareCoverage row is attached to, or detached from, a tenant item.
insert_software_coverage(cov) ==
    /\ ops < MaxOps
    /\ cov \notin software_coverage
    /\ software_coverage' = software_coverage \cup {cov}
    /\ ops' = ops + 1
    /\ UNCHANGED <<orgVars, userVars, software_type, trailVars, typeVars, catalogVars, reqVars, histVars>>

delete_software_coverage(cov) ==
    /\ ops < MaxOps
    /\ cov \in software_coverage
    /\ software_coverage' = software_coverage \ {cov}
    /\ ops' = ops + 1
    /\ UNCHANGED <<orgVars, userVars, software_type, trailVars, typeVars, catalogVars, reqVars, histVars>>

NextCost ==
    \/ ops < MaxOps /\ \E api \in ApiResponses : run_full_sync(api) /\ orgVars' # orgVars
    \/ ops < MaxOps /\ \E p \in Positions, h \in HardwareIds, q \in Quantities :
           add_hardware_requirement(p, h, q) /\ position_hardware' # position_hardware
    \/ ops < MaxOps /\ \E r \in position_hardware : remove_hardware_requirement(r)
    \/ ops < MaxOps /\ \E p \in Positions, s \in {PerUserId, TenantId}, q \in Quantities :
           add_software_requirement(p, s, q) /\ position_software' # position_software
    \/ ops < MaxOps /\ \E r \in position_software : remove_software_requirement(r)
    \/ ops < MaxOps /\ \E cov \in CoverageRows(TenantId) : insert_software_coverage(cov)
    \/ ops < MaxOps /\ \E cov \in software_coverage : delete_software_coverage(cov)

SpecCost == InitCost /\ [][NextCost]_vars

(***************************************************************************)
(* SpecOrphan: SpecCost over tables that also hold requirement rows whose  *)
(* software product has no catalog row.                                    *)
(***************************************************************************)
\* A PositionSoftware row that names a product one past the last catalog
\* id comes to be in the table.
insert_orphan_position_software(position_id, quantity) ==
    /\ ops < MaxOps
    /\ LET req == [position_id |-> position_id,
                   software_id |-> Cardinality(DOMAIN software) + 1,
                   quantity |-> quantity]
       IN  /\ \A r \in position_software :
                  ~(r.position_id = position_id /\ r.software_id = req.software_id)
           /\ position_software' = position_software \cup {req}
    /\ ops' = ops + 1
    /\ UNCHANGED <<orgVars, userVars, software_type, trailVars, typeVars, catalogVars, position_hardware,
                   software_coverage, histVars>>

NextOrphan ==
    \/ NextCost
    \/ \E p \in Positions, q \in Quantities : insert_orphan_position_software(p, q)

SpecOrphan == InitCost /\ [][NextOrphan]_vars

(***************************************************************************)
(* SpecReq: requirement_service.py editing the requirement rows of the     *)
(* positions.  Both tables carry a unique constraint on (position_id,      *)
(* item id): an INSERT of a pair the table holds raises IntegrityError.    *)
(* A request that replaces a position's software rows has its own session: *)
(* its DELETE and INSERTs are flushed, and committed in a later step, with *)
(* the statements of other requests in between.  An operation is counted   *)
(* in ops when it ends.                                                    *)
(***************************************************************************)
\* The items argument of set_position_hardware and set_position_software:
\* lists of up to MaxListed dicts, the same item possibly listed twice.
ItemLists(ids) ==
    UNION {[1..n -> [item_id : ids, quantity : Quantities]] : n \in 0..MaxListed}

\* The lists a request can submit: the items of the catalog and one id
\* that has no catalog row.
HardwareLists == ItemLists(1..(Cardinality(HardwareIds) + 1))
SoftwareLists == ItemLists({PerUserId, TenantId, TenantId + 1})

\* Two dicts of the list name the same item: the INSERT of the second
\* violates the unique constraint.
ListsTwice(items) ==
    \E i, j \in 1..Len(items) : i < j /\ items[i].item_id = items[j].item_id

\* The rows of a position as the items of a submission, in the order of
\* get_hardware_requirements and get_software_requirements.
HardwareItems(rows) ==
    LET seq == HwRowSeq(rows)
    IN  [i \in 1..Len(seq) |->
            [item_id |-> seq[i].hardware_id, quantity |-> seq[i].quantity]]

SoftwareItems(rows) ==
    LET seq == SwRowSeq(rows)
    IN  [i \in 1..Len(seq) |->
            [item_id |-> seq[i].software_id, quantity |-> seq[i].quantity]]

\* _record_requirement_history called for each item of a list in turn.
RECURSIVE record_each(_, _, _, _, _)
record_each(history, position_id, item_type, action_type, items) ==
    IF items = <<>> THEN history
    ELSE record_each(
             _record_requirement_history(history, position_id, item_type,
                                         items[1].item_id, action_type,
                                         items[1].quantity),
             position_id, item_type, action_type, Tail(items))

update_hardware_requirement(req, quantity) ==
    /\ ops < MaxOps
    /\ req \in position_hardware
    /\ LET updated == [req EXCEPT !.quantity = IF quantity = NULL THEN @ ELSE quantity]
       IN  /\ position_hardware' = (position_hardware \ {req}) \cup {updated}
           /\ requirement_history' =
                  _record_requirement_history(
                      requirement_history, req.position_id, "hardware",
                      req.hardware_id, "MODIFIED", updated.quantity)
    /\ audit_log' = log_change(audit_log, "UPDATE", "equip.position_hardware")
    /\ ops' = ops + 1
    /\ UNCHANGED <<orgVars, userVars, software_type, hr_sync_log, typeVars,
                   catalogVars, position_software, software_coverage, histVars>>

update_software_requirement(req, quantity) ==
    /\ ops < MaxOps
    /\ req \in position_software
    /\ ~Deleting(req.position_id)
    /\ LET updated == [req EXCEPT !.quantity = IF quantity = NULL THEN @ ELSE quantity]
       IN  /\ position_software' = (position_software \ {req}) \cup {updated}
           /\ requirement_history' =
                  _record_requirement_history(
                      requirement_history, req.position_id, "software",
                      req.software_id, "MODIFIED", updated.quantity)
    /\ audit_log' = log_change(audit_log, "UPDATE", "equip.position_software")
    /\ ops' = ops + 1
    /\ UNCHANGED <<orgVars, userVars, software_type, hr_sync_log, typeVars,
                   catalogVars, position_hardware, software_coverage, histVars>>

\* _validate_max_selections: nothing to do for an empty list; ValueError
\* for an item that has no catalog row; then, for the first hardware type
\* of the list that has a row, the read of hw_type.max_selections, an
\* attribute the HardwareType model does not define: AttributeError.
_validate_max_selections(items) ==
    IF items = <<>> THEN "ok"
    ELSE IF \E i \in 1..Len(items) : items[i].item_id \notin DOMAIN hardware
    THEN "ValueError"
    ELSE IF \E i \in 1..Len(items) :
                hardware[items[i].item_id].hardware_type_id \in DOMAIN hardware_type
    THEN "AttributeError"
    ELSE "ok"

\* What set_position_hardware raises, "ok" if nothing: the exception of
\* _validate_max_selections, or the IntegrityError of the INSERT of an item
\* listed twice, after which the except block rolls back.
set_position_hardware_raises(position_id, items) ==
    IF _validate_max_selections(items) # "ok" THEN _validate_max_selections(items)
    ELSE IF ListsTwice(items) THEN "IntegrityError"
    ELSE "ok"

\* The rows of position_hardware after set_position_hardware: unchanged
\* when it raises, otherwise the position's rows are replaced by the
\* listed ones.
hardware_after_set(position_id, items) ==
    LET kept == {r \in position_hardware : r.position_id # position_id}
        new_reqs == {[position_id |-> position_id,
                      hardware_id |-> items[i].item_id,
                      quantity |-> items[i].quantity] : i \in 1..Len(items)}
    IN  IF set_position_hardware_raises(position_id, items) # "ok"
        THEN position_hardware
        ELSE kept \cup new_reqs

\* The rows of budget.requirement_history after set_position_hardware: a
\* REMOVED row for each row the position had, an ADDED row for each item.
history_after_hardware_set(position_id, items) ==
    LET existing == HardwareItems({r \in position_hardware :
                                      r.position_id = position_id})
    IN  IF set_position_hardware_raises(position_id, items) # "ok"
        THEN requirement_history
        ELSE record_each(
                 record_each(requirement_history, position_id, "hardware",
                             "REMOVED", existing),
                 position_id, "hardware", "ADDED", items)

\* The rows of audit.audit_log after set_position_hardware.
audit_after_hardware_set(position_id, items) ==
    IF set_position_hardware_raises(position_id, items) # "ok" THEN audit_log
    ELSE log_change(audit_log, "UPDATE", "equip.position_hardware_bulk")

set_position_hardware(position_id, items) ==
    /\ ops < MaxOps
    /\ position_hardware' = hardware_after_set(position_id, items)
    /\ requirement_history' = history_after_hardware_set(position_id, items)
    /\ audit_log' = audit_after_hardware_set(position_id, items)
    /\ ops' = ops + 1
    /\ UNCHANGED <<orgVars, userVars, software_type, hr_sync_log, typeVars,
                   catalogVars, position_software, software_coverage, histVars>>

\* What set_position_software raises, "ok" if nothing: IntegrityError for
\* an item listed twice, for an item without a catalog row (foreign key)
\* and for a pair another request has inserted and committed since the
\* DELETE of the rows deleted; the except block rolls back.
set_position_software_raises(position_id, items, deleted) ==
    IF \/ ListsTwice(items)
       \/ \E i \in 1..Len(items) : items[i].item_id \notin DOMAIN software
       \/ \E i \in 1..Len(items), r \in position_software \ deleted :
              r.position_id = position_id /\ r.software_id = items[i].item_id
    THEN "IntegrityError"
    ELSE "ok"

\* set_position_software without the rollback of its except block: the
\* DELETE of the position's rows stays when an INSERT raises.
software_after_set_no_rollback(position_id, items, deleted) ==
    LET new_reqs == {[position_id |-> position_id,
                      software_id |-> items[i].item_id,
                      quantity |-> items[i].quantity] : i \in 1..Len(items)}
    IN  IF set_position_software_raises(position_id, items, deleted) # "ok"
        THEN position_software \ deleted
        ELSE (position_software \ deleted) \cup new_reqs

\* The rows of position_software after set_position_software.
software_after_set(position_id, items, deleted) ==
    LET new_reqs == {[position_id |-> position_id,
                      software_id |-> items[i].item_id,
                      quantity |-> items[i].quantity] : i \in 1..Len(items)}
    IN  IF set_position_software_raises(position_id, items, deleted) # "ok"
        THEN position_software
        ELSE (position_software \ deleted) \cup new_reqs

\* set_position_software without the REMOVED rows for the rows it deletes.
history_after_software_set_added_only(position_id, items, deleted) ==
    IF set_position_software_raises(position_id, items, deleted) # "ok"
    THEN requirement_history
    ELSE record_each(requirement_history, position_id, "software", "ADDED", items)

\* The rows of budget.requirement_history after set_position_software.
history_after_software_set(position_id, items, deleted) ==
    IF set_position_software_raises(position_id, items, deleted) # "ok"
    THEN requirement_history
    ELSE record_each(
             record_each(requirement_history, position_id, "software",
                         "REMOVED", SoftwareItems(deleted)),
             position_id, "software", "ADDED", items)

\* The rows of audit.audit_log after set_position_software.
audit_after_software_set(position_id, items, deleted) ==
    IF set_position_software_raises(position_id, items, deleted) # "ok"
    THEN audit_log
    ELSE log_change(audit_log, "UPDATE", "equip.position_software_bulk")

\* set_position_software with no statement of another request between its
\* DELETE and its commit.
set_position_software(position_id, items) ==
    /\ ops < MaxOps
    /\ ~Deleting(position_id)
    /\ LET deleted == {r \in position_software : r.position_id = position_id}
       IN  /\ position_software' = software_after_set(position_id, items, deleted)
           /\ requirement_history' =
                  history_after_software_set(position_id, items, deleted)
           /\ audit_log' = audit_after_software_set(position_id, items, deleted)
    /\ ops' = ops + 1
    /\ UNCHANGED <<orgVars, userVars, software_type, hr_sync_log, typeVars,
                   catalogVars, position_hardware, software_coverage, histVars>>

\* What copy_position_requirements raises before its software half:
\* ValueError when the source has no rows, otherwise what
\* set_position_hardware raises for the source's hardware rows.
copy_position_requirements_raises(source_position_id, target_position_id) ==
    LET source_hw == {r \in position_hardware : r.position_id = source_position_id}
        source_sw == {r \in position_software : r.position_id = source_position_id}
    IN  IF source_hw = {} /\ source_sw = {} THEN "ValueError"
        ELSE set_position_hardware_raises(target_position_id, HardwareItems(source_hw))

\* The session of a copy that has replaced the target's hardware rows and
\* deleted its software rows: the rows the two statements removed, and the
\* items read from the source, the software ones still to insert.
Copying(source_position_id, target_position_id) ==
    [Idle EXCEPT
        !.pc = "deleted", !.table = "position_software",
        !.id = target_position_id, !.current = source_position_id,
        !.loaded = [hardware |-> {r \in position_hardware :
                                     r.position_id = target_position_id},
                    software |-> {r \in position_software :
                                     r.position_id = target_position_id}],
        !.attrs = [hardware |-> HardwareItems({r \in position_hardware :
                                                  r.position_id = source_position_id}),
                   software |-> SoftwareItems({r \in position_software :
                                                  r.position_id = source_position_id})]]

\* copy_position_requirements up to the DELETE of its software half: the
\* source's rows are read, set_position_hardware replaces the target's
\* hardware rows and commits, set_position_software deletes the target's
\* software rows.  An exception ends the call here.
copy_position_requirements(s, source_position_id, target_position_id) ==
    /\ ops < MaxOps
    /\ session[s].pc = "idle"
    /\ ~Deleting(source_position_id)
    /\ ~Deleting(target_position_id)
    /\ LET hw_items == HardwareItems({r \in position_hardware :
                                         r.position_id = source_position_id})
       IN  IF copy_position_requirements_raises(source_position_id,
                                                target_position_id) # "ok"
           THEN UNCHANGED <<position_hardware, requirement_history, audit_log,
                            session>>
           ELSE /\ position_hardware' = hardware_after_set(target_position_id, hw_items)
                /\ requirement_history' =
                       history_after_hardware_set(target_position_id, hw_items)
                /\ audit_log' = audit_after_hardware_set(target_position_id, hw_items)
                /\ session' = [session EXCEPT ![s] =
                                  Copying(source_position_id, target_position_id)]
    /\ ops' = ops + 1
    /\ UNCHANGED <<orgVars, userVars, software_type, hr_sync_log, typeVars,
                   catalogVars, position_software, software_coverage,
                   hardware_cost_history, software_cost_history, row_lock,
                   now, price_writes>>

\* The rest of copy_position_requirements: the INSERTs of
\* set_position_software, its history rows, audit entry and commit, or its
\* exception, rollback and re-raise.  The COPY audit entry that follows the
\* commit is added and flushed, never committed: the request ends and the
\* session is removed without it.
copy_position_requirements_software(s) ==
    /\ session[s].pc = "deleted"
    /\ session[s].table = "position_software"
    /\ LET position_id == session[s].id
           items == session[s].attrs.software
           deleted == session[s].loaded.software
       IN  /\ position_software' = software_after_set(position_id, items, deleted)
           /\ requirement_history' =
                  history_after_software_set(position_id, items, deleted)
           /\ audit_log' = audit_after_software_set(position_id, items, deleted)
    /\ session' = [session EXCEPT ![s] = Idle]
    /\ UNCHANGED <<orgVars, userVars, software_type, hr_sync_log, typeVars,
                   catalogVars, position_hardware, software_coverage,
                   hardware_cost_history, software_cost_history, row_lock,
                   now, price_writes, ops>>

\* The tables with given requirement rows, added earlier with their
\* history and audit rows, and done operations counted: the catalog of
\* InitCost with its hardware type, which allows one selection.
InitRequirements(hw_rows, sw_rows, done) ==
    /\ InitOrg
    /\ employee = <<>>
    /\ user = <<>>
    /\ software_type = <<>>
    /\ hr_sync_log = <<>>
    /\ hardware_type = <<[estimated_cost |-> 120000, is_active |-> TRUE,
                          max_selections |-> 1]>>
    /\ hardware = [h \in HardwareIds |->
                      [estimated_cost |-> 120000, is_active |-> TRUE,
                       hardware_type_id |-> 1]]
    /\ software = (PerUserId :> [license_model |-> "per_user",
                                 cost_per_license |-> 20000,
                                 total_cost |-> 0, is_active |-> TRUE])
               @@ (TenantId :> [license_model |-> "tenant",
                                cost_per_license |-> 0,
                                total_cost |-> 900000, is_active |-> TRUE])
    /\ position_hardware = hw_rows
    /\ position_software = sw_rows
    /\ requirement_history =
           record_each(record_each(<<>>, 1, "software", "ADDED", SoftwareItems(sw_rows)),
                       2, "hardware", "ADDED", HardwareItems(hw_rows))
    /\ audit_log = log_changes(log_changes(<<>>, "CREATE", "equip.position_software",
                                           Cardinality(sw_rows)),
                               "CREATE", "equip.position_hardware",
                               Cardinality(hw_rows))
    /\ software_coverage = {}
    /\ hardware_type_cost_history = {}
    /\ hardware_cost_history = {}
    /\ software_cost_history = {}
    /\ session = [s \in Sessions |-> Idle]
    /\ row_lock = {}
    /\ now = 0
    /\ price_writes = <<>>
    /\ ops = done

\* The tables when the requests start: position 1 has a software row and
\* position 2 a hardware row.
InitReq ==
    InitRequirements(
        {[position_id |-> 2, hardware_id |-> 1, quantity |-> 1]},
        {[position_id |-> 1, software_id |-> PerUserId, quantity |-> 1]}, 0)

\* The requests of SpecReq; the lists submitted name catalog items.
NextReq ==
    \/ ops < MaxOps /\ \E p \in Positions, h \in HardwareIds, q \in Quantities :
           add_hardware_requirement(p, h, q)
    \/ \E r \in position_hardware, q \in Quantities \cup {NULL} :
           update_hardware_requirement(r, q)
    \/ \E r \in position_hardware : remove_hardware_requirement(r)
    \/ ops < MaxOps /\ \E p \in Positions, s \in {PerUserId, TenantId}, q \in Quantities :
           add_software_requirement(p, s, q)
    \/ \E r \in position_software, q \in Quantities \cup {NULL} :
           update_software_requirement(r, q)
    \/ \E r \in position_software : remove_software_requirement(r)
    \/ ops < MaxOps /\ \E p \in Positions, items \in ItemLists(DOMAIN hardware) :
           set_position_hardware(p, items)
    \/ ops < MaxOps /\ \E p \in Positions, items \in ItemLists(DOMAIN software) :
           set_position_software(p, items)
    \/ ops < MaxOps /\ \E s \in Sessions, p, q \in Positions :
           copy_position_requirements(s, p, q)
    \/ \E s \in Sessions : copy_position_requirements_software(s)

SpecReq == InitReq /\ [][NextReq]_vars

(***************************************************************************)
(* SpecSet: one call of set_position_hardware or set_position_software on  *)
(* tables in which position 1 has any of the software rows and position 2  *)
(* the hardware row or not.                                                *)
(***************************************************************************)
InitSet ==
    \E hw_rows \in SUBSET {[position_id |-> 2, hardware_id |-> 1, quantity |-> 1]},
       sw_rows \in SUBSET {[position_id |-> 1, software_id |-> PerUserId,
                            quantity |-> 2],
                           [position_id |-> 1, software_id |-> TenantId,
                            quantity |-> 1]} :
        InitRequirements(hw_rows, sw_rows, MaxOps - 1)

NextSet ==
    \/ ops < MaxOps /\ \E p \in Positions, items \in HardwareLists :
           set_position_hardware(p, items)
    \/ ops < MaxOps /\ \E p \in Positions, items \in SoftwareLists :
           set_position_software(p, items)

SpecSet == InitSet /\ [][NextSet]_vars

(***************************************************************************)
(* SpecSync: hr_sync_service.run_full_sync in steps.  _create_sync_log     *)
(* commits the 'started' row before the try block; the try block ends with *)
(* the one commit of the run, or with an exception that the except block   *)
(* answers with rollback and _fail_sync_log.  Two runs can be in flight.   *)
(***************************************************************************)
\* What the HR system can return: the whole organization with one employee
\* per employee code; the same with the last record of a type left out;
\* with one type of record missing altogether; with the last record of a
\* type naming a parent that has no row.
FullResponse ==
    [departments |-> Departments,
     divisions |-> [d \in Divisions |-> DivDept(d)],
     positions |-> [p \in Positions |->
                       [division_code |-> PosDiv(p), authorized_count |-> InitAuth(p)]],
     employees |-> [e \in Employees |-> ((e - 1) % NumPositions) + 1]]

Without(f, x) == [y \in (DOMAIN f) \ {x} |-> f[y]]

SyncResponses ==
    {FullResponse,
     [FullResponse EXCEPT !.departments = @ \ {NumDepartments}],
     [FullResponse EXCEPT !.divisions = Without(@, NumDivisions)],
     [FullResponse EXCEPT !.positions = Without(@, NumPositions)],
     [FullResponse EXCEPT !.employees = Without(@, NumEmployees)],
     [FullResponse EXCEPT !.departments = {}],
     [FullResponse EXCEPT !.divisions = <<>>],
     [FullResponse EXCEPT !.positions = <<>>],
     [FullResponse EXCEPT !.employees = <<>>],
     [FullResponse EXCEPT !.divisions[NumDivisions] = NumDepartments + 1],
     [FullResponse EXCEPT !.positions[NumPositions].division_code = NumDivisions + 1],
     [FullResponse EXCEPT !.employees[NumEmployees] = NumPositions + 1]}

\* run_full_sync up to the response: _create_sync_log inserts and commits
\* the 'started' row, and the try block fetches the response api.
_create_sync_log(s, api) ==
    /\ ops < MaxOps
    /\ session[s].pc = "idle"
    /\ hr_sync_log' = Append(hr_sync_log,
                             [status |-> "started", error_message |-> "None"])
    /\ session' = [session EXCEPT ![s] =
                      [Idle EXCEPT !.pc = "started", !.table = "hr_sync_log",
                                   !.id = Len(hr_sync_log) + 1, !.attrs = api]]
    /\ ops' = ops + 1
    /\ UNCHANGED <<orgVars, userVars, software_type, requirement_history,
                   audit_log, typeVars, catalogVars, reqVars, software_coverage,
                   hardware_cost_history, software_cost_history, row_lock, now,
                   price_writes>>

\* The rest of the try block of run_full_sync when nothing raises: the
\* four passes and _provision_users run, _complete_sync_log marks the row,
\* the SYNC audit entry is added, and one commit makes all of it visible.
run_full_sync_commit(s) ==
    /\ session[s].pc = "started"
    /\ LET done == SyncedTables(session[s].attrs)
       IN  /\ department' = done.department
           /\ division' = done.division
           /\ position' = done.position
           /\ employee' = done.employee
           /\ user' = done.user
           /\ audit_log' = done.audit_log
    /\ hr_sync_log' = [hr_sync_log EXCEPT ![session[s].id].status = "completed"]
    /\ session' = [session EXCEPT ![s] = Idle]
    /\ UNCHANGED <<software_type, requirement_history, typeVars, catalogVars,
                   reqVars, software_coverage, hardware_cost_history,
                   software_cost_history, row_lock, now, price_writes, ops>>

\* Variant: the except block without its rollback, so that the commit of
\* _fail_sync_log also commits what the department pass had flushed.
run_full_sync_except_no_rollback(s) ==
    /\ session[s].pc = "started"
    /\ department' = _sync_departments(session[s].attrs.departments)
    /\ hr_sync_log' = [hr_sync_log EXCEPT ![session[s].id] =
                          [status |-> "failed", error_message |-> "exc"]]
    /\ session' = [session EXCEPT ![s] = Idle]
    /\ UNCHANGED <<division, position, userVars, software_type,
                   requirement_history, audit_log, typeVars, catalogVars,
                   reqVars, software_coverage, hardware_cost_history,
                   software_cost_history, row_lock, now, price_writes, ops>>

\* The except block of run_full_sync: a statement of the try block has
\* raised (the fetch itself, in which case there is no response, or a later
\* one); the session is rolled back, and _fail_sync_log marks the row with
\* the message and commits.
run_full_sync_except(s) ==
    /\ session[s].pc = "started"
    /\ hr_sync_log' = [hr_sync_log EXCEPT ![session[s].id] =
                          [status |-> "failed", error_message |-> "exc"]]
    /\ session' = [session EXCEPT ![s] = Idle]
    /\ UNCHANGED <<orgVars, userVars, software_type, requirement_history,
                   audit_log, typeVars, catalogVars, reqVars, software_coverage,
                   hardware_cost_history, software_cost_history, row_lock, now,
                   price_writes, ops>>

\* The organization of InitOrg, nothing synced yet: no employee, no user,
\* no log row; empty catalog and requirement tables.
InitSync ==
    /\ InitTrail
    /\ InitOrg
    /\ hardware_type = <<>>
    /\ hardware = <<>>
    /\ software = <<>>
    /\ position_hardware = {}
    /\ position_software = {}
    /\ software_coverage = {}
    /\ hardware_type_cost_history = {}
    /\ hardware_cost_history = {}
    /\ software_cost_history = {}
    /\ session = [s \in Sessions |-> Idle]
    /\ row_lock = {}
    /\ now = 0
    /\ price_writes = <<>>
    /\ ops = 0

NextSync ==
    \/ ops < MaxOps /\ \E s \in Sessions, api \in SyncResponses :
           _create_sync_log(s, api)
    \/ \E s \in Sessions : run_full_sync_commit(s)
    \/ \E s \in Sessions : run_full_sync_except(s)

SpecSync == InitSync /\ [][NextSync]_vars

\* A run that has started comes to an end: the process that runs it is not
\* stopped.  The try block's commit and the except block are enabled in
\* exactly the states in which the run is in flight and each of them ends
\* it, so weak fairness of one of them says that no run stays in flight
\* forever.
SpecSyncFair ==
    /\ SpecSync
    /\ \A s \in Sessions : WF_vars(run_full_sync_except(s))

(***************************************************************************)
(* SpecScope: user_service.py giving users their scopes, and the           *)
(* scope-filtered queries of organization_service.py over the organization *)
(* of InitOrg.                                                             *)
(***************************************************************************)
\* The auth.user_scope rows.
OrgScope ==
    [scope_type |-> "organization", department_id |-> NULL, division_id |-> NULL]

DepartmentScope(department_id) ==
    [scope_type |-> "department", department_id |-> department_id,
     division_id |-> NULL]

\* The scopes argument of set_user_scopes: no row, the organization, one
\* department, one division, or a department together with a division.
ScopeLists ==
    {{}, {OrgScope}, {DepartmentScope(1), DivisionScope(NumDivisions)}}
    \cup {{DepartmentScope(d)} : d \in Departments}
    \cup {{DivisionScope(d)} : d \in Divisions}

RoleNames == {"admin", "it_staff", "budget_executive", "manager", "read_only"}

\* user_service.provision_user: the user row, the organization scope for
\* the three roles that get one, the audit entry and the commit; the
\* INSERT of an e-mail address that has a row raises and nothing is
\* written.
provision_user(email, role_name) ==
    /\ ops < MaxCalls
    /\ IF email \in DOMAIN user
       THEN UNCHANGED <<user, audit_log>>
       ELSE /\ user' = [u \in DOMAIN user \cup {email} |->
                           IF u = email
                           THEN [employee_id |-> NULL, is_active |-> TRUE,
                                 scopes |-> IF role_name \in {"admin", "it_staff",
                                                              "budget_executive"}
                                            THEN {OrgScope} ELSE {}]
                           ELSE user[u]]
            /\ audit_log' = log_change(audit_log, "CREATE", "auth.user")
    /\ ops' = ops + 1
    /\ UNCHANGED <<orgVars, employee, software_type, requirement_history,
                   hr_sync_log, typeVars, catalogVars, reqVars, software_coverage,
                   histVars>>

\* user_service.set_user_scopes: the user's scope rows are replaced by the
\* ones given; ValueError for a user that has no row.
set_user_scopes(user_id, scopes) ==
    /\ ops < MaxCalls
    /\ IF user_id \notin DOMAIN user
       THEN UNCHANGED <<user, audit_log>>
       ELSE /\ user' = [user EXCEPT ![user_id].scopes = scopes]
            /\ audit_log' = log_change(audit_log, "UPDATE", "auth.user_scope")
    /\ ops' = ops + 1
    /\ UNCHANGED <<orgVars, employee, software_type, requirement_history,
                   hr_sync_log, typeVars, catalogVars, reqVars, software_coverage,
                   histVars>>

\* user_service.deactivate_user: the flag is cleared and an audit entry
\* written, whatever the flag was; ValueError for a user that has no row.
deactivate_user(user_id) ==
    /\ ops < MaxCalls
    /\ IF user_id \notin DOMAIN user
       THEN UNCHANGED <<user, audit_log>>
       ELSE /\ user' = [user EXCEPT ![user_id].is_active = FALSE]
            /\ audit_log' = log_change(audit_log, "UPDATE", "auth.user")
    /\ ops' = ops + 1
    /\ UNCHANGED <<orgVars, employee, software_type, requirement_history,
                   hr_sync_log, typeVars, catalogVars, reqVars, software_coverage,
                   histVars>>

\* models/user.py: User.has_org_scope, scoped_department_ids,
\* scoped_division_ids.
has_org_scope(u) ==
    \E s \in user[u].scopes : s.scope_type = "organization"

scoped_department_ids(u) ==
    {s.department_id : s \in {x \in user[u].scopes :
                                 x.scope_type = "department" /\ x.department_id # NULL}}

scoped_division_ids(u) ==
    {s.division_id : s \in {x \in user[u].scopes :
                               x.scope_type = "division" /\ x.division_id # NULL}}

\* organization_service.get_departments: the active departments, for a
\* user without the organization scope those among the scoped departments
\* and the parents of the scoped divisions.
get_departments(u) ==
    LET active == {d \in DOMAIN department : department[d].is_active}
        dept_ids == scoped_department_ids(u)
                    \cup {division[v].department_id :
                             v \in scoped_division_ids(u) \cap DOMAIN division}
    IN  IF has_org_scope(u) THEN active ELSE active \cap dept_ids

\* organization_service.get_divisions with no department_id: the filter on
\* the scopes is added when the user has a department or a division scope.
get_divisions(u) ==
    LET active == {v \in DOMAIN division : division[v].is_active}
        dept_ids == scoped_department_ids(u)
        div_ids == scoped_division_ids(u)
    IN  IF has_org_scope(u) THEN active
        ELSE IF dept_ids # {} /\ div_ids # {}
        THEN {v \in active : division[v].department_id \in dept_ids \/ v \in div_ids}
        ELSE IF dept_ids # {}
        THEN {v \in active : division[v].department_id \in dept_ids}
        ELSE IF div_ids # {}
        THEN {v \in active : v \in div_ids}
        ELSE active

\* organization_service.get_positions with no division_id or department_id:
\* the join and the filter on the scopes are added when the user has a
\* department or a division scope.
get_positions(u) ==
    LET active == {p \in DOMAIN position : position[p].is_active}
        dept_ids == scoped_department_ids(u)
        div_ids == scoped_division_ids(u)
    IN  IF has_org_scope(u) THEN active
        ELSE IF dept_ids # {} \/ div_ids # {}
        THEN {p \in active :
                 /\ position[p].division_id \in DOMAIN division
                 /\ \/ division[position[p].division_id].department_id \in dept_ids
                    \/ position[p].division_id \in div_ids}
        ELSE active

\* organization_service.user_can_access_position.
user_can_access_position(u, position_id) ==
    IF has_org_scope(u) THEN TRUE
    ELSE IF position_id \notin DOMAIN position THEN FALSE
    ELSE \/ division[position[position_id].division_id].department_id
                \in scoped_department_ids(u)
         \/ position[position_id].division_id \in scoped_division_ids(u)

\* The organization of InitOrg and no user yet.
InitScope == InitSync

NextScope ==
    \/ ops < MaxCalls /\ \E email \in Employees, role_name \in RoleNames :
           provision_user(email, role_name)
    \/ ops < MaxCalls /\ \E user_id \in Employees, scopes \in ScopeLists :
           set_user_scopes(user_id, scopes)
    \/ ops < MaxCalls /\ \E user_id \in Employees : deactivate_user(user_id)

SpecScope == InitScope /\ [][NextScope]_vars

(***************************************************************************)
(* SpecHist: equipment_service.py writing catalog prices.  Every request   *)
(* has its own SQLAlchemy session and transaction (SQL Server, READ        *)
(* COMMITTED): a read sees committed rows, a flushed UPDATE holds the      *)
(* row's exclusive lock until the commit, and what a session flushed is    *)
(* visible to the others from its commit on.                               *)
(***************************************************************************)
Prices == {10000, 25000}

InitHist ==
    /\ InitTrail
    /\ department = <<>>
    /\ division = <<>>
    /\ position = <<>>
    /\ hardware_type = <<>>
    /\ hardware_type_cost_history = {}
    /\ hardware = <<>>
    /\ software = <<>>
    /\ position_hardware = {}
    /\ position_software = {}
    /\ software_coverage = {}
    /\ hardware_cost_history = {}
    /\ software_cost_history = {}
    /\ session = [s \in Sessions |-> Idle]
    /\ row_lock = {}
    /\ now = 0
    /\ price_writes = <<>>
    /\ ops = 0

\* The clock advances between any two steps.
Tick ==
    /\ now < MaxTime
    /\ now' = now + 1
    /\ UNCHANGED <<orgVars, userVars, software_type, trailVars, typeVars, catalogVars, reqVars, software_coverage,
                   hardware_cost_history, software_cost_history, session,
                   row_lock, price_writes, ops>>

Counted(key) == IF key \in DOMAIN price_writes THEN price_writes[key] ELSE 0

CountWrite(key) ==
    [k \in DOMAIN price_writes \cup {key} |->
        IF k = key THEN Counted(key) + 1 ELSE price_writes[k]]

\* No other session holds the exclusive lock of the row.
CanLock(s, table, id) ==
    \A l \in row_lock : (l[1] = table /\ l[2] = id) => l[3] = s

\* The HardwareCostHistory row _record_hardware_cost_history adds, as the
\* INSERT stores it: effective_date is the server default of that moment.
_record_hardware_cost_history(hardware_id, hw, at) ==
    [id |-> Cardinality(hardware_cost_history) + 1,
     hardware_id |-> hardware_id,
     estimated_cost |-> hw.estimated_cost,
     effective_date |-> at,
     end_date |-> NULL]

create_hardware(estimated_cost) ==
    /\ ops < MaxCalls
    /\ Cardinality(DOMAIN hardware) < MaxItems
    /\ LET id == Cardinality(DOMAIN hardware) + 1
           hw == [estimated_cost |-> estimated_cost, is_active |-> TRUE]
       IN  /\ hardware' = hardware @@ (id :> hw)
           /\ hardware_cost_history' =
                  hardware_cost_history \cup {_record_hardware_cost_history(id, hw, now)}
           /\ price_writes' = CountWrite(<<"hardware", id>>)
    /\ ops' = ops + 1
    /\ audit_log' = log_change(audit_log, "CREATE", "equip.hardware")
    /\ UNCHANGED <<orgVars, userVars, software_type, requirement_history, hr_sync_log,
                   typeVars, software, reqVars, software_coverage,
                   software_cost_history, session, row_lock, now>>

\* update_hardware up to the cost_changed test: the item is loaded, the
\* arguments are compared with it and set on it.
update_hardware_load(s, hardware_id, estimated_cost) ==
    /\ ops < MaxCalls
    /\ session[s].pc = "idle"
    /\ hardware_id \in DOMAIN hardware
    /\ LET hw == hardware[hardware_id]
           cost_changed == estimated_cost # NULL /\ estimated_cost # hw.estimated_cost
       IN  session' = [session EXCEPT ![s] =
               [Idle EXCEPT !.pc = "dirty", !.table = "hardware",
                            !.id = hardware_id, !.loaded = hw,
                            !.attrs = IF estimated_cost # NULL
                                      THEN [hw EXCEPT !.estimated_cost = estimated_cost]
                                      ELSE hw,
                            !.cost_changed = cost_changed]]
    /\ ops' = ops + 1
    /\ UNCHANGED <<orgVars, userVars, software_type, trailVars, typeVars, catalogVars, reqVars, software_coverage,
                   hardware_cost_history, software_cost_history, row_lock,
                   now, price_writes>>

\* Variant: the history query runs without the autoflush of the dirty
\* catalog row, so the row is not locked before the open record is read.
_close_hardware_cost_history_no_autoflush(s) ==
    /\ session[s].pc = "dirty"
    /\ session[s].table = "hardware"
    /\ session[s].cost_changed
    /\ LET open == {r \in hardware_cost_history :
                       r.hardware_id = session[s].id /\ r.end_date = NULL}
       IN  \E current \in (IF open = {} THEN {NULL} ELSE {r.id : r \in open}) :
               session' = [session EXCEPT ![s].pc = "closed",
                                          ![s].current = current,
                                          ![s].end_date =
                                              IF current = NULL THEN NULL ELSE now]
    /\ UNCHANGED <<orgVars, userVars, software_type, trailVars, typeVars, catalogVars, reqVars, software_coverage,
                   hardware_cost_history, software_cost_history, row_lock,
                   now, price_writes, ops>>

\* Variant: the open record is left open.
_close_hardware_cost_history_keeps_open(s) ==
    /\ session[s].pc = "dirty"
    /\ session[s].table = "hardware"
    /\ session[s].cost_changed
    /\ CanLock(s, "hardware", session[s].id)
    /\ row_lock' = row_lock \cup {<<"hardware", session[s].id, s>>}
    /\ session' = [session EXCEPT ![s].pc = "closed"]
    /\ UNCHANGED <<orgVars, userVars, software_type, trailVars, typeVars, catalogVars, reqVars, software_coverage,
                   hardware_cost_history, software_cost_history,
                   now, price_writes, ops>>

\* _close_hardware_cost_history: the query autoflushes the dirty hardware
\* row (an UPDATE, which waits for the row's lock), then reads the open
\* record, if any, and sets its end_date from the application clock.
_close_hardware_cost_history(s) ==
    /\ session[s].pc = "dirty"
    /\ session[s].table = "hardware"
    /\ session[s].cost_changed
    /\ CanLock(s, "hardware", session[s].id)
    /\ row_lock' = row_lock \cup {<<"hardware", session[s].id, s>>}
    /\ LET open == {r \in hardware_cost_history :
                       r.hardware_id = session[s].id /\ r.end_date = NULL}
       IN  \E current \in (IF open = {} THEN {NULL} ELSE {r.id : r \in open}) :
               session' = [session EXCEPT ![s].pc = "closed",
                                          ![s].current = current,
                                          ![s].end_date =
                                              IF current = NULL THEN NULL ELSE now]
    /\ UNCHANGED <<orgVars, userVars, software_type, trailVars, typeVars, catalogVars, reqVars, software_coverage,
                   hardware_cost_history, software_cost_history,
                   now, price_writes, ops>>

\* audit_service.log_change flushes the session: the UPDATE of the
\* hardware row if it is still pending, the UPDATE closing the old record
\* and the INSERT of the new one, whose effective_date the server sets.
update_hardware_flush(s) ==
    /\ session[s].table = "hardware"
    /\ \/ session[s].pc = "closed"
       \/ session[s].pc = "dirty" /\ ~session[s].cost_changed
    /\ CanLock(s, "hardware", session[s].id)
    /\ row_lock' = row_lock \cup {<<"hardware", session[s].id, s>>}
    /\ session' = [session EXCEPT ![s].pc = "flushed",
                                  ![s].effective_date =
                                      IF session[s].cost_changed THEN now ELSE NULL]
    /\ UNCHANGED <<orgVars, userVars, software_type, trailVars, typeVars, catalogVars, reqVars, software_coverage,
                   hardware_cost_history, software_cost_history,
                   now, price_writes, ops>>

\* db.session.commit(): what the session flushed becomes the committed
\* state and its locks are released.
update_hardware_commit(s) ==
    /\ session[s].table = "hardware"
    /\ session[s].pc = "flushed"
    /\ LET id == session[s].id
           closed == {IF r.id = session[s].current
                      THEN [r EXCEPT !.end_date = session[s].end_date] ELSE r :
                         r \in hardware_cost_history}
       IN  /\ hardware' =
                  IF session[s].attrs.estimated_cost # session[s].loaded.estimated_cost
                  THEN [hardware EXCEPT ![id].estimated_cost =
                                            session[s].attrs.estimated_cost]
                  ELSE hardware
           /\ hardware_cost_history' =
                  IF session[s].cost_changed
                  THEN closed \cup {_record_hardware_cost_history(
                                        id, session[s].attrs, session[s].effective_date)}
                  ELSE hardware_cost_history
           /\ price_writes' = IF session[s].cost_changed
                              THEN CountWrite(<<"hardware", id>>) ELSE price_writes
    /\ row_lock' = {l \in row_lock : l[3] # s}
    /\ session' = [session EXCEPT ![s] = Idle]
    /\ audit_log' = log_change(audit_log, "UPDATE", "equip.hardware")
    /\ UNCHANGED <<orgVars, userVars, software_type, requirement_history, hr_sync_log,
                   typeVars, software, reqVars, software_coverage,
                   software_cost_history, now, ops>>

\* The SoftwareCostHistory row _record_software_cost_history adds.
_record_software_cost_history(software_id, sw, at) ==
    [id |-> Cardinality(software_cost_history) + 1,
     software_id |-> software_id,
     cost_per_license |-> sw.cost_per_license,
     total_cost |-> sw.total_cost,
     effective_date |-> at,
     end_date |-> NULL]

\* The cost arguments create_software is called with: the per-seat cost
\* of a per_user product, the flat cost of a tenant product.
SoftwareArgs ==
    {[license_model |-> "per_user", cost_per_license |-> c, total_cost |-> NULL,
      is_active |-> TRUE] : c \in Prices}
    \cup {[license_model |-> "tenant", cost_per_license |-> NULL, total_cost |-> c,
           is_active |-> TRUE] : c \in Prices}

create_software(sw) ==
    /\ ops < MaxCalls
    /\ Cardinality(DOMAIN software) < MaxItems
    /\ LET id == Cardinality(DOMAIN software) + 1
       IN  /\ software' = software @@ (id :> sw)
           /\ software_cost_history' =
                  software_cost_history \cup {_record_software_cost_history(id, sw, now)}
           /\ price_writes' = CountWrite(<<"software", id>>)
    /\ ops' = ops + 1
    /\ audit_log' = log_change(audit_log, "CREATE", "equip.software")
    /\ UNCHANGED <<orgVars, userVars, software_type, requirement_history, hr_sync_log,
                   typeVars, hardware, reqVars, software_coverage,
                   hardware_cost_history, session, row_lock, now>>

\* The keyword arguments of update_software: given holds the names
\* present in kwargs.
Kwargs ==
    {[given |-> {}, cost_per_license |-> NULL, total_cost |-> NULL]}
    \cup {[given |-> {"cost_per_license"}, cost_per_license |-> c, total_cost |-> NULL] :
             c \in Prices}
    \cup {[given |-> {"total_cost"}, cost_per_license |-> NULL, total_cost |-> c] :
             c \in Prices}

update_software_load(s, software_id, kwargs) ==
    /\ ops < MaxCalls
    /\ session[s].pc = "idle"
    /\ software_id \in DOMAIN software
    /\ LET sw == software[software_id]
           cost_changed ==
               \/ /\ "cost_per_license" \in kwargs.given
                  /\ kwargs.cost_per_license # sw.cost_per_license
               \/ /\ "total_cost" \in kwargs.given
                  /\ kwargs.total_cost # sw.total_cost
       IN  session' = [session EXCEPT ![s] =
               [Idle EXCEPT !.pc = "dirty", !.table = "software",
                            !.id = software_id, !.loaded = sw,
                            !.attrs = [f \in DOMAIN sw |->
                                          IF f \in kwargs.given THEN kwargs[f] ELSE sw[f]],
                            !.cost_changed = cost_changed]]
    /\ ops' = ops + 1
    /\ UNCHANGED <<orgVars, userVars, software_type, trailVars, typeVars, catalogVars, reqVars, software_coverage,
                   hardware_cost_history, software_cost_history, row_lock,
                   now, price_writes>>

\* Variant: the history query runs without the autoflush of the dirty
\* catalog row, so the row is not locked before the open record is read.
_close_software_cost_history_no_autoflush(s) ==
    /\ session[s].pc = "dirty"
    /\ session[s].table = "software"
    /\ session[s].cost_changed
    /\ LET open == {r \in software_cost_history :
                       r.software_id = session[s].id /\ r.end_date = NULL}
       IN  \E current \in (IF open = {} THEN {NULL} ELSE {r.id : r \in open}) :
               session' = [session EXCEPT ![s].pc = "closed",
                                          ![s].current = current,
                                          ![s].end_date =
                                              IF current = NULL THEN NULL ELSE now]
    /\ UNCHANGED <<orgVars, userVars, software_type, trailVars, typeVars, catalogVars, reqVars, software_coverage,
                   hardware_cost_history, software_cost_history, row_lock,
                   now, price_writes, ops>>

\* Variant: the record to close is looked up without the end_date filter.
_close_software_cost_history_any_record(s) ==
    /\ session[s].pc = "dirty"
    /\ session[s].table = "software"
    /\ session[s].cost_changed
    /\ CanLock(s, "software", session[s].id)
    /\ row_lock' = row_lock \cup {<<"software", session[s].id, s>>}
    /\ LET rows == {r \in software_cost_history : r.software_id = session[s].id}
       IN  \E current \in (IF rows = {} THEN {NULL} ELSE {r.id : r \in rows}) :
               session' = [session EXCEPT ![s].pc = "closed",
                                          ![s].current = current,
                                          ![s].end_date =
                                              IF current = NULL THEN NULL ELSE now]
    /\ UNCHANGED <<orgVars, userVars, software_type, trailVars, typeVars, catalogVars, reqVars, software_coverage,
                   hardware_cost_history, software_cost_history,
                   now, price_writes, ops>>

\* _close_software_cost_history: autoflush of the dirty software row,
\* then the open record, if any, gets its end_date.
_close_software_cost_history(s) ==
    /\ session[s].pc = "dirty"
    /\ session[s].table = "software"
    /\ session[s].cost_changed
    /\ CanLock(s, "software", session[s].id)
    /\ row_lock' = row_lock \cup {<<"software", session[s].id, s>>}
    /\ LET open == {r \in software_cost_history :
                       r.software_id = session[s].id /\ r.end_date = NULL}
       IN  \E current \in (IF open = {} THEN {NULL} ELSE {r.id : r \in open}) :
               session' = [session EXCEPT ![s].pc = "closed",
                                          ![s].current = current,
                                          ![s].end_date =
                                              IF current = NULL THEN NULL ELSE now]
    /\ UNCHANGED <<orgVars, userVars, software_type, trailVars, typeVars, catalogVars, reqVars, software_coverage,
                   hardware_cost_history, software_cost_history,
                   now, price_writes, ops>>

update_software_flush(s) ==
    /\ session[s].table = "software"
    /\ \/ session[s].pc = "closed"
       \/ session[s].pc = "dirty" /\ ~session[s].cost_changed
    /\ CanLock(s, "software", session[s].id)
    /\ row_lock' = row_lock \cup {<<"software", session[s].id, s>>}
    /\ session' = [session EXCEPT ![s].pc = "flushed",
                                  ![s].effective_date =
                                      IF session[s].cost_changed THEN now ELSE NULL]
    /\ UNCHANGED <<orgVars, userVars, software_type, trailVars, typeVars, catalogVars, reqVars, software_coverage,
                   hardware_cost_history, software_cost_history,
                   now, price_writes, ops>>

update_software_commit(s) ==
    /\ session[s].table = "software"
    /\ session[s].pc = "flushed"
    /\ LET id == session[s].id
           closed == {IF r.id = session[s].current
                      THEN [r EXCEPT !.end_date = session[s].end_date] ELSE r :
                         r \in software_cost_history}
       IN  /\ software' =
                  [software EXCEPT ![id] =
                      [f \in DOMAIN @ |->
                          IF session[s].attrs[f] # session[s].loaded[f]
                          THEN session[s].attrs[f] ELSE @[f]]]
           /\ software_cost_history' =
                  IF session[s].cost_changed
                  THEN closed \cup {_record_software_cost_history(
                                        id, session[s].attrs, session[s].effective_date)}
                  ELSE software_cost_history
           /\ price_writes' = IF session[s].cost_changed
                              THEN CountWrite(<<"software", id>>) ELSE price_writes
    /\ row_lock' = {l \in row_lock : l[3] # s}
    /\ session' = [session EXCEPT ![s] = Idle]
    /\ audit_log' = log_change(audit_log, "UPDATE", "equip.software")
    /\ UNCHANGED <<orgVars, userVars, software_type, requirement_history, hr_sync_log,
                   typeVars, hardware, reqVars, software_coverage,
                   hardware_cost_history, now, ops>>

NextHist ==
    \/ Tick
    \/ ops < MaxCalls /\ \E c \in Prices : create_hardware(c)
    \/ ops < MaxCalls /\ \E s \in Sessions, h \in 1..MaxItems, c \in Prices \cup {NULL} :
           update_hardware_load(s, h, c)
    \/ \E s \in Sessions : _close_hardware_cost_history(s)
    \/ \E s \in Sessions : update_hardware_flush(s)
    \/ \E s \in Sessions : update_hardware_commit(s)
    \/ ops < MaxCalls /\ \E sw \in SoftwareArgs : create_software(sw)
    \/ ops < MaxCalls /\ \E s \in Sessions, i \in 1..MaxItems, kwargs \in Kwargs :
           update_software_load(s, i, kwargs)
    \/ \E s \in Sessions : _close_software_cost_history(s)
    \/ \E s \in Sessions : update_software_flush(s)
    \/ \E s \in Sessions : update_software_commit(s)

SpecHist == InitHist /\ [][NextHist]_vars

(***************************************************************************)
(* SpecPrice: SpecHist with the hardware types of equipment_service.py     *)
(* and with transactions that fail.  An exception raised by a statement or *)
(* by the commit is not caught in update_hardware_type, update_hardware or *)
(* update_software; it reaches the caller and the transaction is rolled    *)
(* back.                                                                   *)
(***************************************************************************)
\* The HardwareTypeCostHistory row _record_hardware_type_cost_history adds.
_record_hardware_type_cost_history(hardware_type_id, hw_type, at) ==
    [id |-> Cardinality(hardware_type_cost_history) + 1,
     hardware_type_id |-> hardware_type_id,
     estimated_cost |-> hw_type.estimated_cost,
     effective_date |-> at,
     end_date |-> NULL]

\* Variant: the type is created without its initial history record.
create_hardware_type_no_history(estimated_cost) ==
    /\ ops < MaxCalls
    /\ Cardinality(DOMAIN hardware_type) < MaxItems
    /\ LET id == Cardinality(DOMAIN hardware_type) + 1
           hw_type == [estimated_cost |-> estimated_cost, is_active |-> TRUE]
       IN  /\ hardware_type' = hardware_type @@ (id :> hw_type)
           /\ price_writes' = CountWrite(<<"hardware_type", id>>)
    /\ ops' = ops + 1
    /\ audit_log' = log_change(audit_log, "CREATE", "equip.hardware_type")
    /\ UNCHANGED <<orgVars, userVars, software_type, requirement_history, hr_sync_log,
                   catalogVars, reqVars, software_coverage,
                   hardware_type_cost_history, hardware_cost_history,
                   software_cost_history, session, row_lock, now>>

create_hardware_type(estimated_cost) ==
    /\ ops < MaxCalls
    /\ Cardinality(DOMAIN hardware_type) < MaxItems
    /\ LET id == Cardinality(DOMAIN hardware_type) + 1
           hw_type == [estimated_cost |-> estimated_cost, is_active |-> TRUE]
       IN  /\ hardware_type' = hardware_type @@ (id :> hw_type)
           /\ hardware_type_cost_history' =
                  hardware_type_cost_history
                  \cup {_record_hardware_type_cost_history(id, hw_type, now)}
           /\ price_writes' = CountWrite(<<"hardware_type", id>>)
    /\ ops' = ops + 1
    /\ audit_log' = log_change(audit_log, "CREATE", "equip.hardware_type")
    /\ UNCHANGED <<orgVars, userVars, software_type, requirement_history, hr_sync_log,
                   catalogVars, reqVars, software_coverage,
                   hardware_cost_history, software_cost_history, session,
                   row_lock, now>>

\* update_hardware_type up to the cost_changed test.
update_hardware_type_load(s, hw_type_id, estimated_cost) ==
    /\ ops < MaxCalls
    /\ session[s].pc = "idle"
    /\ hw_type_id \in DOMAIN hardware_type
    /\ LET hw_type == hardware_type[hw_type_id]
           cost_changed ==
               estimated_cost # NULL /\ estimated_cost # hw_type.estimated_cost
       IN  session' = [session EXCEPT ![s] =
               [Idle EXCEPT !.pc = "dirty", !.table = "hardware_type",
                            !.id = hw_type_id, !.loaded = hw_type,
                            !.attrs = IF estimated_cost # NULL
                                      THEN [hw_type EXCEPT
                                               !.estimated_cost = estimated_cost]
                                      ELSE hw_type,
                            !.cost_changed = cost_changed]]
    /\ ops' = ops + 1
    /\ UNCHANGED <<orgVars, userVars, software_type, trailVars, typeVars, catalogVars, reqVars, software_coverage,
                   hardware_cost_history, software_cost_history, row_lock,
                   now, price_writes>>

\* _close_hardware_type_cost_history: autoflush of the dirty type row,
\* then the open record, if any, gets its end_date.
_close_hardware_type_cost_history(s) ==
    /\ session[s].pc = "dirty"
    /\ session[s].table = "hardware_type"
    /\ session[s].cost_changed
    /\ CanLock(s, "hardware_type", session[s].id)
    /\ row_lock' = row_lock \cup {<<"hardware_type", session[s].id, s>>}
    /\ LET open == {r \in hardware_type_cost_history :
                       r.hardware_type_id = session[s].id /\ r.end_date = NULL}
       IN  \E current \in (IF open = {} THEN {NULL} ELSE {r.id : r \in open}) :
               session' = [session EXCEPT ![s].pc = "closed",
                                          ![s].current = current,
                                          ![s].end_date =
                                              IF current = NULL THEN NULL ELSE now]
    /\ UNCHANGED <<orgVars, userVars, software_type, trailVars, typeVars, catalogVars, reqVars, software_coverage,
                   hardware_cost_history, software_cost_history,
                   now, price_writes, ops>>

update_hardware_type_flush(s) ==
    /\ session[s].table = "hardware_type"
    /\ \/ session[s].pc = "closed"
       \/ session[s].pc = "dirty" /\ ~session[s].cost_changed
    /\ CanLock(s, "hardware_type", session[s].id)
    /\ row_lock' = row_lock \cup {<<"hardware_type", session[s].id, s>>}
    /\ session' = [session EXCEPT ![s].pc = "flushed",
                                  ![s].effective_date =
                                      IF session[s].cost_changed THEN now ELSE NULL]
    /\ UNCHANGED <<orgVars, userVars, software_type, trailVars, typeVars, catalogVars, reqVars, software_coverage,
                   hardware_cost_history, software_cost_history,
                   now, price_writes, ops>>

update_hardware_type_commit(s) ==
    /\ session[s].table = "hardware_type"
    /\ session[s].pc = "flushed"
    /\ LET id == session[s].id
           closed == {IF r.id = session[s].current
                      THEN [r EXCEPT !.end_date = session[s].end_date] ELSE r :
                         r \in hardware_type_cost_history}
       IN  /\ hardware_type' =
                  IF session[s].attrs.estimated_cost # session[s].loaded.estimated_cost
                  THEN [hardware_type EXCEPT ![id].estimated_cost =
                                                 session[s].attrs.estimated_cost]
                  ELSE hardware_type
           /\ hardware_type_cost_history' =
                  IF session[s].cost_changed
                  THEN closed \cup {_record_hardware_type_cost_history(
                                        id, session[s].attrs, session[s].effective_date)}
                  ELSE hardware_type_cost_history
           /\ price_writes' = IF session[s].cost_changed
                              THEN CountWrite(<<"hardware_type", id>>)
                              ELSE price_writes
    /\ row_lock' = {l \in row_lock : l[3] # s}
    /\ session' = [session EXCEPT ![s] = Idle]
    /\ audit_log' = log_change(audit_log, "UPDATE", "equip.hardware_type")
    /\ UNCHANGED <<orgVars, userVars, software_type, requirement_history, hr_sync_log,
                   catalogVars, reqVars, software_coverage,
                   hardware_cost_history, software_cost_history, now, ops>>

\* Variant: the close helper has committed its UPDATE by itself, so the
\* failure of a later statement leaves the record closed.
commit_raises_after_own_commit(s) ==
    /\ session[s].pc \in {"dirty", "closed", "flushed"}
    /\ session' = [session EXCEPT ![s] = [Idle EXCEPT !.pc = "raised"]]
    /\ LET done == session[s].pc # "dirty" /\ session[s].current # NULL
           close(hist) == {IF r.id = session[s].current
                           THEN [r EXCEPT !.end_date = session[s].end_date] ELSE r :
                              r \in hist}
       IN  /\ hardware_type_cost_history' =
                  IF done /\ session[s].table = "hardware_type"
                  THEN close(hardware_type_cost_history)
                  ELSE hardware_type_cost_history
           /\ hardware_cost_history' =
                  IF done /\ session[s].table = "hardware"
                  THEN close(hardware_cost_history) ELSE hardware_cost_history
           /\ software_cost_history' =
                  IF done /\ session[s].table = "software"
                  THEN close(software_cost_history) ELSE software_cost_history
    /\ UNCHANGED <<orgVars, userVars, software_type, trailVars, hardware_type, catalogVars, reqVars, software_coverage,
                   row_lock, now, price_writes, ops>>

\* A statement of the transaction, or db.session.commit(), raises: the
\* exception leaves the update function, which has no handler for it.
\* The session keeps its locks until it is rolled back.
commit_raises(s) ==
    /\ session[s].pc \in {"dirty", "closed", "flushed"}
    /\ session' = [session EXCEPT ![s] = [Idle EXCEPT !.pc = "raised"]]
    /\ UNCHANGED <<orgVars, userVars, software_type, trailVars, typeVars, catalogVars, reqVars, software_coverage,
                   hardware_cost_history, software_cost_history, row_lock,
                   now, price_writes, ops>>

\* The 500 handler: db.session.rollback() discards what the session
\* flushed and releases its locks.
internal_error(s) ==
    /\ session[s].pc = "raised"
    /\ row_lock' = {l \in row_lock : l[3] # s}
    /\ session' = [session EXCEPT ![s] = Idle]
    /\ UNCHANGED <<orgVars, userVars, software_type, trailVars, typeVars, catalogVars, reqVars, software_coverage,
                   hardware_cost_history, software_cost_history,
                   now, price_writes, ops>>

NextType ==
    \/ ops < MaxCalls /\ \E c \in Prices : create_hardware_type(c)
    \/ ops < MaxCalls /\ \E s \in Sessions, t \in 1..MaxItems, c \in Prices \cup {NULL} :
           update_hardware_type_load(s, t, c)
    \/ \E s \in Sessions : _close_hardware_type_cost_history(s)
    \/ \E s \in Sessions : update_hardware_type_flush(s)
    \/ \E s \in Sessions : update_hardware_type_commit(s)

NextPrice ==
    \/ NextHist
    \/ NextType
    \/ \E s \in Sessions : commit_raises(s)
    \/ \E s \in Sessions : internal_error(s)

SpecPrice == InitHist /\ [][NextPrice]_vars

(***************************************************************************)
(* Exact arithmetic on digit strings, to state what a Decimal result is    *)
(* without repeating how it is computed.                                   *)
(***************************************************************************)
BigAdd(a, b) ==
    LET L == IF Len(a) > Len(b) THEN Len(a) ELSE Len(b)
    IN  StripLead(AddDigits(Zeros(L - Len(a)) \o a, Zeros(L - Len(b)) \o b, 0))

BigMul(a, n) == StripLead(MulDigits(a, n, 0))

RECURSIVE LexLeq(_, _)
LexLeq(a, b) ==
    IF a = <<>> THEN TRUE
    ELSE IF Head(a) # Head(b) THEN Head(a) < Head(b)
    ELSE LexLeq(Tail(a), Tail(b))

BigLeq(a, b) ==
    LET x == StripLead(a)
        y == StripLead(b)
    IN  Len(x) < Len(y) \/ (Len(x) = Len(y) /\ LexLeq(x, y))

\* r * den = num, with no rounding anywhere.
IsExactQuotient(r, num, den) ==
    DecNorm(BigMul(r.c, den), r.e) = DecNorm(num.c, num.e)

\* r is num / den to Prec significant digits: r has at most Prec digits
\* and lies within half a unit of its Prec-th digit of num / den.
IsRoundedQuotient(r, num, den) ==
    IF num.c = <<>> THEN r.c = <<>>
    ELSE /\ r.c # <<>>
         /\ Len(r.c) <= Prec
         /\ LET e28 == r.e - (Prec - Len(r.c))
                c28 == r.c \o Zeros(Prec - Len(r.c))
                E   == IF e28 < num.e THEN e28 ELSE num.e
                A2d == BigMul(BigMul(c28 \o Zeros(e28 - E), 2), den)
                T2  == BigMul(num.c \o Zeros(num.e - E), 2)
                Ud  == BigMul(<<1>> \o Zeros(e28 - E), den)
            IN  /\ BigLeq(A2d, BigAdd(T2, Ud))
                /\ BigLeq(T2, BigAdd(A2d, Ud))

\* The exact product x * n.
ExactProduct(x, n) == DecNorm(BigMul(x.c, n), x.e)

\* A cost column as a number: NULL counts as no cost.
CostDec(cents) == IF cents = NULL THEN ZERO ELSE DecOfCents(cents)

RECURSIVE SumAuthorized(_)
SumAuthorized(S) ==
    IF S = {} THEN 0
    ELSE LET p == CHOOSE x \in S : TRUE
         IN  position[p].authorized_count + SumAuthorized(S \ {p})

\* The lines of a returned summary for one software item.
SoftwareLinesFor(summary, software_id) ==
    {summary.software_lines[i] : i \in
        {j \in 1..Len(summary.software_lines) :
            summary.software_lines[j].software_id = software_id}}

TenantRequirements ==
    {r \in position_software : software[r.software_id].license_model = "tenant"}

(***************************************************************************)
(* Properties of the cost calculation (SpecCost).                          *)
(***************************************************************************)

\* Position p is among the positions the coverage row expands to: all
\* active positions for an organization row, the active positions of the
\* department, of the division, or the one active position it names.
Covers(cov, p) ==
    /\ position[p].is_active
    /\ \/ cov.scope_type = "organization"
       \/ /\ cov.scope_type = "department"
          /\ division[position[p].division_id].department_id = cov.department_id
       \/ cov.scope_type = "division" /\ position[p].division_id = cov.division_id
       \/ cov.scope_type = "position" /\ cov.position_id = p

RowsOf(software_id) == {c \in software_coverage : c.software_id = software_id}

HeadcountIsUnionSum ==
    \A sw \in DOMAIN software :
        covered_headcount(sw) =
            SumAuthorized({p \in DOMAIN position :
                              \E cov \in RowsOf(sw) : Covers(cov, p)})

\* Attaching a row that expands only to positions the item's rows cover
\* already gives the same headcount.
OverlappingRowKeepsHeadcount ==
    \A sw \in DOMAIN software : \A cov \in CoverageRows(sw) :
        (\A p \in DOMAIN position :
            Covers(cov, p) => \E c2 \in RowsOf(sw) : Covers(c2, p))
        => headcount_of_rows(RowsOf(sw) \cup {cov}) = covered_headcount(sw)

\* C1: the covered headcount of every item is the sum of authorized_count
\* over the union of the positions its coverage rows expand to, each
\* position counted once, and attaching a row whose positions are all
\* covered already leaves the headcount unchanged.
C1_CoveredHeadcountCountsOnce ==
    HeadcountIsUnionSum /\ OverlappingRowKeepsHeadcount

\* A position with a positive authorized_count is covered by two rows of
\* the tenant item.
C1_Witness ==
    \E p \in DOMAIN position :
        /\ position[p].authorized_count > 0
        /\ Cardinality({c \in RowsOf(TenantId) : Covers(c, p)}) >= 2
        /\ \E q \in DOMAIN position : q # p /\ position[q].authorized_count > 0
                /\ \E c \in RowsOf(TenantId) : Covers(c, q)

\* C2: every department's totals are the sums of its active divisions'
\* totals and every division's totals the sums of its active positions'
\* totals, for hardware, software and grand total.
C2_RollupTotalsAreSums ==
    /\ \A d \in DOMAIN division :
           LET r == calculate_division_costs(d)
               ps == IdSeq({p \in DOMAIN position :
                               position[p].division_id = d /\ position[p].is_active})
               cs == [i \in 1..Len(ps) |-> calculate_position_cost(ps[i])]
           IN  /\ r.raised = "None"
               /\ \A i \in 1..Len(ps) : cs[i].raised = "None"
               /\ r.hardware_total = DecSum([i \in 1..Len(ps) |-> cs[i].hardware_total])
               /\ r.software_total = DecSum([i \in 1..Len(ps) |-> cs[i].software_total])
               /\ r.grand_total = DecSum([i \in 1..Len(ps) |-> cs[i].grand_total])
    /\ \A D \in DOMAIN department :
           LET r == calculate_department_costs(D)
               ds == IdSeq({d \in DOMAIN division :
                               division[d].department_id = D /\ division[d].is_active})
               cs == [i \in 1..Len(ds) |-> calculate_division_costs(ds[i])]
           IN  /\ r.raised = "None"
               /\ \A i \in 1..Len(ds) : cs[i].raised = "None"
               /\ r.hardware_total = DecSum([i \in 1..Len(ds) |-> cs[i].hardware_total])
               /\ r.software_total = DecSum([i \in 1..Len(ds) |-> cs[i].software_total])
               /\ r.grand_total = DecSum([i \in 1..Len(ds) |-> cs[i].grand_total])

\* The per-person cost a requirement row stands for: quantity times the
\* unit cost for hardware and per-user software, the per-seat share for
\* tenant software.
HardwarePerPerson(r) ==
    ExactProduct(DecOfCents(hardware[r.hardware_id].estimated_cost), r.quantity)

SoftwarePerPerson(r) ==
    IF software[r.software_id].license_model = "per_user"
    THEN ExactProduct(CostDec(software[r.software_id].cost_per_license), r.quantity)
    ELSE _calculate_tenant_share_for_position(r.software_id, r.position_id)

\* C6: a position with authorized_count = 0 is priced without error, its
\* hardware, software and grand totals are 0 and total_per_person is the
\* sum of the per-person costs of all its requirement lines.
C6_ZeroAuthorizedCount ==
    \A p \in DOMAIN position :
        position[p].authorized_count = 0 =>
            LET r == calculate_position_cost(p)
                hw == HwRowSeq({x \in position_hardware : x.position_id = p})
                sw == SwRowSeq({x \in position_software : x.position_id = p})
            IN  /\ r.raised = "None"
                /\ r.hardware_total = ZERO
                /\ r.software_total = ZERO
                /\ r.grand_total = ZERO
                /\ Len(r.hardware_lines) = Len(hw)
                /\ Len(r.software_lines) = Len(sw)
                /\ r.total_per_person =
                       DecAdd(DecSum([i \in 1..Len(hw) |-> HardwarePerPerson(hw[i])]),
                              DecSum([i \in 1..Len(sw) |-> SoftwarePerPerson(sw[i])]))

C8_UnallocatableTenantItem ==
    \A req \in TenantRequirements :
        (RowsOf(req.software_id) = {} \/ covered_headcount(req.software_id) = 0) =>
            LET r == calculate_position_cost(req.position_id)
                hw == HwRowSeq({x \in position_hardware : x.position_id = req.position_id})
                sw == SwRowSeq({x \in position_software : x.position_id = req.position_id})
            IN  /\ r.raised = "None"
                /\ \A l \in SoftwareLinesFor(r, req.software_id) : l.line_total = ZERO
                /\ Len(r.hardware_lines) = Len(hw)
                /\ \A i \in 1..Len(hw) :
                       r.hardware_lines[i].line_total = HardwarePerPerson(hw[i])
                /\ Len(r.software_lines) = Len(sw)
                /\ \A i \in 1..Len(sw) :
                       r.software_lines[i].line_total = SoftwarePerPerson(sw[i])

\* Ids the calculations may be called with: the existing ones, 0 and one
\* past the last.
PositionIdArgs == 0..(NumPositions + 1)
DivisionIdArgs == 0..(NumDivisions + 1)
DepartmentIdArgs == 0..(NumDepartments + 1)

IsNotFound(r) == r.raised = "ValueError" /\ r.message[3] = "not found."

\* C9: a calculation called with an id that does not exist raises the
\* not-found ValueError and returns no summary, and a rollup returns no
\* summary when a calculation it calls raised.
C9_NotFoundRaises ==
    /\ \A id \in PositionIdArgs \ DOMAIN position :
           IsNotFound(calculate_position_cost(id))
    /\ \A id \in DivisionIdArgs \ DOMAIN division :
           IsNotFound(calculate_division_costs(id))
    /\ \A id \in DepartmentIdArgs \ DOMAIN department :
           IsNotFound(calculate_department_costs(id))
    /\ \A d \in DOMAIN division :
           (\E p \in DOMAIN position :
                /\ position[p].division_id = d /\ position[p].is_active
                /\ calculate_position_cost(p).raised # "None")
           => calculate_division_costs(d).raised # "None"
    /\ \A D \in DOMAIN department :
           (\E d \in DOMAIN division :
                /\ division[d].department_id = D /\ division[d].is_active
                /\ calculate_division_costs(d).raised # "None")
           => calculate_department_costs(D).raised # "None"

\* Existing positions with requirements are priced while the missing id
\* raises.
C9_Witness ==
    /\ IsNotFound(calculate_position_cost(NumPositions + 1))
    /\ IsNotFound(calculate_division_costs(NumDivisions + 1))
    /\ IsNotFound(calculate_department_costs(NumDepartments + 1))
    /\ \E p \in DOMAIN position :
           /\ calculate_position_cost(p).raised = "None"
           /\ calculate_position_cost(p).grand_total # ZERO

\* C10: every hardware requirement of a position has a line in the
\* position's summary whose per-person cost is quantity times the item's
\* estimated_cost and whose position_total is that times authorized_count.
C10_HardwareLines ==
    \A p \in DOMAIN position :
        LET r == calculate_position_cost(p)
            hw == HwRowSeq({x \in position_hardware : x.position_id = p})
        IN  hw # <<>> =>
                /\ r.raised = "None"
                /\ Len(r.hardware_lines) = Len(hw)
                /\ \A i \in 1..Len(hw) :
                       /\ r.hardware_lines[i].line_total = HardwarePerPerson(hw[i])
                       /\ r.hardware_lines[i].position_total =
                              ExactProduct(HardwarePerPerson(hw[i]),
                                           position[p].authorized_count)

(***************************************************************************)
(* Properties of the cost history (SpecHist).  The history variables hold  *)
(* the committed rows.                                                     *)
(***************************************************************************)
HardwareHistoryOf(h) == {r \in hardware_cost_history : r.hardware_id = h}
SoftwareHistoryOf(i) == {r \in software_cost_history : r.software_id = i}
OpenRows(rows) == {r \in rows : r.end_date = NULL}
ClosedRows(rows) == {r \in rows : r.end_date # NULL}

\* C3: an item that has been created and has had its cost changed, N
\* committed calls in all, has exactly one OPEN history record and N - 1
\* closed ones.
C3_OneOpenRestClosed ==
    /\ \A h \in DOMAIN hardware :
           /\ Cardinality(OpenRows(HardwareHistoryOf(h))) = 1
           /\ Cardinality(ClosedRows(HardwareHistoryOf(h))) =
                  Counted(<<"hardware", h>>) - 1
    /\ \A i \in DOMAIN software :
           /\ Cardinality(OpenRows(SoftwareHistoryOf(i))) = 1
           /\ Cardinality(ClosedRows(SoftwareHistoryOf(i))) =
                  Counted(<<"software", i>>) - 1

\* A hardware item after its creation and two price changes.
C3_Witness ==
    \E h \in DOMAIN hardware :
        /\ Counted(<<"hardware", h>>) = 3
        /\ Cardinality(ClosedRows(HardwareHistoryOf(h))) = 2
        /\ \A s \in Sessions : session[s].pc = "idle"

\* C4: whatever the interleaving of the transactions changing a software
\* product's price, the committed history never has two OPEN records of
\* the product.
C4_WritersSerialize ==
    \A i \in DOMAIN software : Cardinality(OpenRows(SoftwareHistoryOf(i))) <= 1

\* Two price changes of one product overlapped: the second writer loaded
\* the product before the first committed and, past the first's commit,
\* is closing the record the first inserted.
C4_Witness ==
    \E s \in Sessions :
        /\ session[s].table = "software"
        /\ session[s].pc = "flushed"
        /\ session[s].cost_changed
        /\ session[s].loaded # software[session[s].id]
        /\ \E r \in OpenRows(SoftwareHistoryOf(session[s].id)) :
               /\ r.id = session[s].current
               /\ r.id > 1
               /\ Cardinality(ClosedRows(SoftwareHistoryOf(session[s].id))) = 1

\* C5: for every hardware item and every instant T from the item's first
\* record on, exactly one committed history record of the item satisfies
\* effective_date <= T and (end_date is NULL or end_date > T).
C5_PointInTimeMatchesOne ==
    \A h \in DOMAIN hardware : \A T \in 0..MaxTime :
        (\E r \in HardwareHistoryOf(h) : r.effective_date <= T)
        => Cardinality({r \in HardwareHistoryOf(h) :
                           /\ r.effective_date <= T
                           /\ (r.end_date = NULL \/ r.end_date > T)}) = 1

PerUserRequirements ==
    {r \in position_software : software[r.software_id].license_model = "per_user"}

\* C11: every per-user software requirement of a position has its line in
\* the position's summary, whose per-person cost is quantity times the
\* item's cost_per_license and whose position_total is that cost times
\* the position's authorized_count.
C11_PerUserLines ==
    \A req \in PerUserRequirements :
        LET r == calculate_position_cost(req.position_id)
        IN  /\ r.raised = "None"
            /\ Cardinality(SoftwareLinesFor(r, req.software_id)) = 1
            /\ \A l \in SoftwareLinesFor(r, req.software_id) :
                   /\ l.line_total =
                          ExactProduct(CostDec(software[req.software_id].cost_per_license),
                                       req.quantity)
                   /\ l.position_total =
                          ExactProduct(l.line_total, position[req.position_id].authorized_count)

\* The summaries calculate_position_cost returns, one per position that is
\* priced without an exception.
ReturnedSummaries ==
    {calculate_position_cost(p) :
        p \in {q \in DOMAIN position : calculate_position_cost(q).raised = "None"}}

LineSum(lines, field) == DecSum([i \in 1..Len(lines) |-> lines[i][field]])

\* The parts of a summary's consistency that are sums of its lines.
TotalsAreLineSums(r) ==
    /\ r.hardware_total = LineSum(r.hardware_lines, "position_total")
    /\ r.software_total = LineSum(r.software_lines, "position_total")
    /\ r.grand_total = DecAdd(r.hardware_total, r.software_total)
    /\ r.total_per_person = DecAdd(LineSum(r.hardware_lines, "line_total"),
                                   LineSum(r.software_lines, "line_total"))
    /\ (r.hardware_lines = <<>> /\ r.software_lines = <<>>) =>
           /\ r.hardware_total = ZERO
           /\ r.software_total = ZERO
           /\ r.grand_total = ZERO
           /\ r.total_per_person = ZERO

SharesAreExact(r) ==
    \A i \in 1..Len(r.software_lines) :
        LET l == r.software_lines[i]
        IN  l.license_model = "tenant" =>
                \/ l.line_total = ZERO
                \/ /\ covered_headcount(l.software_id) > 0
                   /\ IsExactQuotient(l.line_total,
                                      CostDec(software[l.software_id].total_cost),
                                      covered_headcount(l.software_id))

SpecRollup == SpecCost

ActivePositionsOf(d) ==
    {p \in DOMAIN position : position[p].division_id = d /\ position[p].is_active}

ActiveDivisionsOf(D) ==
    {d \in DOMAIN division : division[d].department_id = D /\ division[d].is_active}

ActiveDepartments == {D \in DOMAIN department : department[D].is_active}

RECURSIVE CountPositions(_)
CountPositions(divs) ==
    IF divs = {} THEN 0
    ELSE LET d == CHOOSE x \in divs : TRUE
         IN  Cardinality(ActivePositionsOf(d)) + CountPositions(divs \ {d})

\* The sum of one total of the given results over the given ids, in
\* ascending id order.
TotalOver(results, ids, field) ==
    LET seq == IdSeq(ids)
    IN  DecSum([i \in 1..Len(seq) |-> results[seq[i]][field]])

\* C13: every rollup that is returned counts and sums active entities
\* only: a division summary its active positions, a department summary
\* its active divisions (and through them their active positions), the
\* organization summary the active departments.
C13_RollupsSkipInactive ==
    LET pos == [p \in DOMAIN position |-> calculate_position_cost(p)] \o <<>>
        div == [d \in DOMAIN division |-> calculate_division_costs(d)] \o <<>>
        dep == [D \in DOMAIN department |-> calculate_department_costs(D)] \o <<>>
        org == calculate_organization_costs
        Ds == ActiveDepartments
        orgDivs == UNION {ActiveDivisionsOf(D) : D \in Ds}
    IN  /\ \A d \in DOMAIN division :
               div[d].raised = "None" =>
                   /\ div[d].position_count = Cardinality(ActivePositionsOf(d))
                   /\ div[d].total_authorized = SumAuthorized(ActivePositionsOf(d))
                   /\ div[d].hardware_total =
                          TotalOver(pos, ActivePositionsOf(d), "hardware_total")
                   /\ div[d].software_total =
                          TotalOver(pos, ActivePositionsOf(d), "software_total")
                   /\ div[d].grand_total =
                          DecAdd(div[d].hardware_total, div[d].software_total)
        /\ \A D \in DOMAIN department :
               dep[D].raised = "None" =>
                   /\ dep[D].division_count = Cardinality(ActiveDivisionsOf(D))
                   /\ dep[D].position_count = CountPositions(ActiveDivisionsOf(D))
                   /\ dep[D].total_authorized =
                          SumAuthorized(UNION {ActivePositionsOf(d) :
                                                  d \in ActiveDivisionsOf(D)})
                   /\ dep[D].hardware_total =
                          TotalOver(div, ActiveDivisionsOf(D), "hardware_total")
                   /\ dep[D].software_total =
                          TotalOver(div, ActiveDivisionsOf(D), "software_total")
                   /\ dep[D].grand_total =
                          DecAdd(dep[D].hardware_total, dep[D].software_total)
        /\ org.raised = "None" =>
               /\ org.department_count = Cardinality(Ds)
               /\ org.division_count = Cardinality(orgDivs)
               /\ org.position_count = CountPositions(orgDivs)
               /\ org.total_authorized =
                      SumAuthorized(UNION {ActivePositionsOf(d) : d \in orgDivs})
               /\ org.hardware_total = TotalOver(dep, Ds, "hardware_total")
               /\ org.software_total = TotalOver(dep, Ds, "software_total")
               /\ org.grand_total = DecAdd(org.hardware_total, org.software_total)

\* A deactivated position that would cost something is left out of its
\* division's, its department's and the organization's summary.
C13_Witness ==
    \E p \in DOMAIN position :
        LET d == position[p].division_id
            D == division[d].department_id
        IN  /\ ~position[p].is_active
            /\ position[p].authorized_count > 0
            /\ calculate_position_cost(p).raised = "None"
            /\ calculate_position_cost(p).grand_total # ZERO
            /\ calculate_division_costs(d).raised = "None"
            /\ calculate_division_costs(d).grand_total = ZERO
            /\ calculate_department_costs(D).raised = "None"
            /\ calculate_organization_costs.raised = "None"
            /\ calculate_organization_costs.grand_total = ZERO

\* A coverage row that names no scope id, or a department, division or
\* position that has no row any more.
IsDangling(cov) ==
    \/ cov.scope_type = "department" /\ cov.department_id \notin DOMAIN department
    \/ cov.scope_type = "division" /\ cov.division_id \notin DOMAIN division
    \/ cov.scope_type = "position" /\ cov.position_id \notin DOMAIN position

\* A position-scope row that names an inactive position.
NamesInactive(cov) ==
    /\ cov.scope_type = "position"
    /\ cov.position_id \in DOMAIN position
    /\ ~position[cov.position_id].is_active

\* C14: an inactive position adds nothing to an item's covered headcount,
\* and a coverage row that names a deleted department, division or
\* position, or no scope id, adds nothing either: the headcount is the sum
\* over the active positions of the item's other rows, whether the row is
\* among the item's rows already or is attached to them.
C14_InactiveAndDanglingAddNothing ==
    \A sw \in DOMAIN software :
        /\ covered_headcount(sw) =
               SumAuthorized({p \in _get_covered_position_ids(sw) \cap DOMAIN position :
                                 position[p].is_active})
        /\ covered_headcount(sw) =
               headcount_of_rows({c \in RowsOf(sw) :
                                     ~IsDangling(c) /\ ~NamesInactive(c)})
        /\ \A cov \in CoverageRows(sw) :
               IsDangling(cov) \/ NamesInactive(cov)
               => headcount_of_rows(RowsOf(sw) \cup {cov}) = covered_headcount(sw)

\* Position p lies in the scope a coverage row names.
InScope(cov, p) ==
    \/ cov.scope_type = "organization"
    \/ /\ cov.scope_type = "department"
       /\ division[position[p].division_id].department_id = cov.department_id
    \/ cov.scope_type = "division" /\ position[p].division_id = cov.division_id
    \/ cov.scope_type = "position" /\ cov.position_id = p

\* A row of the tenant item has in its scope an inactive position with a
\* positive authorized_count, and the item has a positive headcount.
C14_Witness ==
    /\ covered_headcount(TenantId) > 0
    /\ \E c \in RowsOf(TenantId) : \E p \in DOMAIN position :
           /\ InScope(c, p)
           /\ ~position[p].is_active
           /\ position[p].authorized_count > 0

\* The tenant item has a dangling row next to a row that gives it a
\* positive headcount.
C14_WitnessDangling ==
    /\ covered_headcount(TenantId) > 0
    /\ \E c \in RowsOf(TenantId) : IsDangling(c)

(***************************************************************************)
(* Properties of the price writes (SpecPrice).                             *)
(***************************************************************************)
HardwareTypeHistoryOf(t) ==
    {r \in hardware_type_cost_history : r.hardware_type_id = t}

\* Every record of old is in new with the same id, item id, cost snapshot
\* and effective_date, and with the same end_date unless it was open.
HistoryKept(old, new) ==
    \/ new = old
    \/ \A r \in old : \E r2 \in new :
           /\ [r2 EXCEPT !.end_date = NULL] = [r EXCEPT !.end_date = NULL]
           /\ r.end_date # NULL => r2.end_date = r.end_date

\* C15: no step deletes a history record or changes a record's item id,
\* cost snapshot or effective_date, and no step changes the end_date of a
\* closed record: the only change to an existing record is the end_date
\* of an open one.
C15_HistoryAppendOnly ==
    [][/\ HistoryKept(hardware_type_cost_history, hardware_type_cost_history')
       /\ HistoryKept(hardware_cost_history, hardware_cost_history')
       /\ HistoryKept(software_cost_history, software_cost_history')]_vars

\* A software product whose price was changed again after a record of it
\* had been closed, at a later time than the close.
C15_Witness ==
    \E i \in DOMAIN software :
        \E r1, r2 \in ClosedRows(SoftwareHistoryOf(i)) : r1.end_date < r2.end_date

\* The records of a history table that belong to one item; key is the
\* name of the item id column.
RecordsOf(hist, key, id) == {r \in hist : r[key] = id}

\* One step on a catalog table (cat to cat2) and its history (hist to
\* hist2).  A created item has exactly one record, open and carrying its
\* costs, and the step closes nothing.  An item one of whose price fields
\* changes gets exactly one new record, open and carrying the written
\* values, and has no other open record left.
WriteRecorded(cat, cat2, hist, hist2, key, fields) ==
    cat2 # cat =>
    /\ \A id \in DOMAIN cat2 \ DOMAIN cat :
           LET rows == RecordsOf(hist2, key, id)
           IN  /\ Cardinality(rows) = 1
               /\ \A r \in rows :
                      r.end_date = NULL /\ \A f \in fields : r[f] = cat2[id][f]
               /\ hist2 \ rows = hist
    /\ \A id \in DOMAIN cat :
           LET written == {f \in fields : cat2[id][f] # cat[id][f]}
               old == {r.id : r \in hist}
               new == {r \in RecordsOf(hist2, key, id) : r.id \notin old}
           IN  written # {} =>
                   /\ Cardinality(new) = 1
                   /\ \A r \in new :
                          r.end_date = NULL /\ \A f \in written : r[f] = cat2[id][f]
                   /\ \A r \in RecordsOf(hist2, key, id) \ new : r.end_date # NULL
                   /\ OpenRows(RecordsOf(hist, key, id)) # {}

\* C16: every step that creates a hardware type, a hardware item or a
\* software product inserts exactly one OPEN record for it and closes
\* none, and every step that changes a price field of an existing item
\* closes the item's open record and inserts one OPEN record carrying the
\* written cost.
C16_PriceWritesRecorded ==
    [][/\ WriteRecorded(hardware_type, hardware_type',
                        hardware_type_cost_history, hardware_type_cost_history',
                        "hardware_type_id", {"estimated_cost"})
       /\ WriteRecorded(hardware, hardware',
                        hardware_cost_history, hardware_cost_history',
                        "hardware_id", {"estimated_cost"})
       /\ WriteRecorded(software, software',
                        software_cost_history, software_cost_history',
                        "software_id", {"cost_per_license", "total_cost"})]_vars

\* A hardware type after its creation and a price change: one closed
\* record with the first cost, one open record with the cost now in the
\* catalog.
C16_Witness ==
    \E t \in DOMAIN hardware_type :
        /\ Cardinality(ClosedRows(HardwareTypeHistoryOf(t))) = 1
        /\ \E r \in OpenRows(HardwareTypeHistoryOf(t)) :
               /\ r.estimated_cost = hardware_type[t].estimated_cost
               /\ \E c \in ClosedRows(HardwareTypeHistoryOf(t)) :
                      c.estimated_cost # r.estimated_cost

\* One step on a catalog table and its history is all or nothing for
\* every item that exists before it: a record of the item is closed
\* exactly when a record of it is inserted, and a price field changes
\* only together with both.
AllOrNothing(cat, cat2, hist, hist2, key, fields) ==
    cat2 # cat \/ hist2 # hist =>
    \A id \in DOMAIN cat :
        LET old == {r.id : r \in hist}
            inserted == {r \in RecordsOf(hist2, key, id) : r.id \notin old}
            closed == {r \in OpenRows(RecordsOf(hist, key, id)) :
                          \E r2 \in hist2 : r2.id = r.id /\ r2.end_date # NULL}
            priced == \E f \in fields : cat2[id][f] # cat[id][f]
        IN  /\ (closed # {}) <=> (inserted # {})
            /\ priced => inserted # {}

\* The committed rows: the catalog tables and their histories.
Committed ==
    <<hardware_type, hardware, software, hardware_type_cost_history,
      hardware_cost_history, software_cost_history>>

\* Every item has one open record and no more.
OneOpenEach ==
    /\ \A t \in DOMAIN hardware_type :
           Cardinality(OpenRows(HardwareTypeHistoryOf(t))) = 1
    /\ \A h \in DOMAIN hardware : Cardinality(OpenRows(HardwareHistoryOf(h))) = 1
    /\ \A i \in DOMAIN software : Cardinality(OpenRows(SoftwareHistoryOf(i))) = 1

\* C17: a price change is all or nothing.  A step in which a transaction
\* fails, or is rolled back after its failure reached the caller, leaves
\* the committed rows as they were; every other step closes a record of
\* an item exactly when it inserts one, and changes a price only together
\* with both; so no committed state has an item without an open record
\* or with two.
C17_CloseAndOpenAtomic ==
    /\ []OneOpenEach
    /\ [][/\ (\E s \in Sessions :
                 (session[s].pc = "raised") # (session'[s].pc = "raised"))
             => Committed' = Committed
          /\ \A s \in Sessions :
                 /\ session[s].pc \in {"dirty", "closed", "flushed"}
                 /\ session'[s].pc = "idle"
                 /\ Committed' = Committed
                 => ~session[s].cost_changed
          /\ AllOrNothing(hardware_type, hardware_type',
                          hardware_type_cost_history, hardware_type_cost_history',
                          "hardware_type_id", {"estimated_cost"})
          /\ AllOrNothing(hardware, hardware',
                          hardware_cost_history, hardware_cost_history',
                          "hardware_id", {"estimated_cost"})
          /\ AllOrNothing(software, software',
                          software_cost_history, software_cost_history',
                          "software_id", {"cost_per_license", "total_cost"})]_vars

\* The transaction of a price change has failed after it flushed (it
\* still holds the row's lock) and awaits its rollback.
C17_Witness ==
    \E s \in Sessions :
        /\ session[s].pc = "raised"
        /\ \E l \in row_lock : l[3] = s

\* The requirement rows of a position whose catalog item is missing.
OrphanRows(p) ==
    {r \in position_software : r.position_id = p /\ r.software_id \notin DOMAIN software}

\* C18: a position that has a requirement row whose catalog item is missing
\* is still priced: calculate_position_cost raises nothing for it, and
\* neither do the rollups of its division and department.
C18_MissingItemExcluded ==
    \A p \in DOMAIN position :
        (OrphanRows(p) # {} /\ ~\E r \in position_hardware : r.position_id = p)
        => /\ calculate_position_cost(p).raised = "None"
           /\ position[p].is_active
              => calculate_division_costs(position[p].division_id).raised = "None"

\* C19: neither requirement table has two rows for one (position, item)
\* pair, whatever adds, updates, removes, replacements and copies ran.
C19_OneRowPerPair ==
    /\ \A r1, r2 \in position_hardware :
           r1.position_id = r2.position_id /\ r1.hardware_id = r2.hardware_id
           => r1 = r2
    /\ \A r1, r2 \in position_software :
           r1.position_id = r2.position_id /\ r1.software_id = r2.software_id
           => r1 = r2

\* Two operations have run and a position holds a row of quantity 2 for
\* the per-user product next to a row for the tenant product: the second
\* operation added, updated or replaced a row the position had.
C19_Witness ==
    /\ ops = MaxOps
    /\ \E p \in DOMAIN position :
           /\ \E r \in position_software :
                  r.position_id = p /\ r.software_id = PerUserId /\ r.quantity = 2
           /\ \E r \in position_software :
                  r.position_id = p /\ r.software_id = TenantId

\* C20: a position outside the resolved coverage set of the tenant item is
\* charged nothing for it: in every summary that is returned, the item's
\* line of such a position has a position_total of zero.
C20_OnlyCoveredPositionsCharged ==
    \A p \in DOMAIN position :
        LET r == calculate_position_cost(p)
        IN  (r.raised = "None" /\ p \notin _get_covered_position_ids(TenantId))
            => \A l \in SoftwareLinesFor(r, TenantId) : l.position_total = ZERO

\* The items of a submission that belong to a hardware type.
ItemsOfType(items, hw_type_id) ==
    {i \in 1..Len(items) :
        /\ items[i].item_id \in DOMAIN hardware
        /\ hardware[items[i].item_id].hardware_type_id = hw_type_id}

\* C22: a submission that lists more items of a hardware type than the
\* type's max_selections N > 0 allows is rejected by set_position_hardware
\* with ValueError, whatever else it lists, and nothing is modified.
C22_MaxSelectionsRejected ==
    \A p \in DOMAIN position, items \in HardwareLists :
        (\E t \in DOMAIN hardware_type :
            /\ hardware_type[t].max_selections # NULL
            /\ hardware_type[t].max_selections > 0
            /\ Cardinality(ItemsOfType(items, t)) > hardware_type[t].max_selections)
        => /\ set_position_hardware_raises(p, items) = "ValueError"
           /\ hardware_after_set(p, items) = position_hardware
           /\ history_after_hardware_set(p, items) = requirement_history

\* The rows a submission asks for, for a position.
SubmittedHardware(p, items) ==
    {[position_id |-> p, hardware_id |-> items[i].item_id,
      quantity |-> items[i].quantity] : i \in 1..Len(items)}

SubmittedSoftware(p, items) ==
    {[position_id |-> p, software_id |-> items[i].item_id,
      quantity |-> items[i].quantity] : i \in 1..Len(items)}

\* C23: set_position_hardware and set_position_software are all-or-nothing.
\* A call that raises nothing leaves the position with one row per
\* submitted item, with its quantity, and the rows of the other positions
\* as they were; a call that raises leaves the requirement rows, the
\* requirement history and the audit log as they were; and a submission
\* with an unknown item or an item listed twice raises.
C23_ReplaceAllOrNothing ==
    \A p \in DOMAIN position :
        LET deleted == {r \in position_software : r.position_id = p}
        IN  /\ \A items \in HardwareLists :
                   LET after == hardware_after_set(p, items)
                   IN  /\ (ListsTwice(items)
                           \/ \E i \in 1..Len(items) :
                                  items[i].item_id \notin DOMAIN hardware)
                          => set_position_hardware_raises(p, items) # "ok"
                       /\ IF set_position_hardware_raises(p, items) = "ok"
                          THEN /\ {r \in after : r.position_id = p}
                                      = SubmittedHardware(p, items)
                               /\ Cardinality(SubmittedHardware(p, items)) = Len(items)
                               /\ {r \in after : r.position_id # p}
                                      = {r \in position_hardware : r.position_id # p}
                          ELSE /\ after = position_hardware
                               /\ history_after_hardware_set(p, items)
                                      = requirement_history
                               /\ audit_after_hardware_set(p, items) = audit_log
            /\ \A items \in SoftwareLists :
                   LET after == software_after_set(p, items, deleted)
                   IN  /\ (ListsTwice(items)
                           \/ \E i \in 1..Len(items) :
                                  items[i].item_id \notin DOMAIN software)
                          => set_position_software_raises(p, items, deleted) # "ok"
                       /\ IF set_position_software_raises(p, items, deleted) = "ok"
                          THEN /\ {r \in after : r.position_id = p}
                                      = SubmittedSoftware(p, items)
                               /\ Cardinality(SubmittedSoftware(p, items)) = Len(items)
                               /\ {r \in after : r.position_id # p}
                                      = {r \in position_software : r.position_id # p}
                          ELSE /\ after = position_software
                               /\ history_after_software_set(p, items, deleted)
                                      = requirement_history
                               /\ audit_after_software_set(p, items, deleted)
                                      = audit_log

\* A replacement has succeeded on a position that had rows: position 1 now
\* has the tenant product with quantity 2 as its only software row, and
\* its history ends with the REMOVED and ADDED rows of the call.
C23_Witness ==
    /\ ops = MaxOps
    /\ <<"UPDATE", "equip.position_software_bulk">> \in DOMAIN audit_log
    /\ {r \in position_software : r.position_id = 1}
           = {[position_id |-> 1, software_id |-> TenantId, quantity |-> 2]}
    /\ 1 \in DOMAIN requirement_history
    /\ Len(requirement_history[1]) >= 3
    /\ requirement_history[1][Len(requirement_history[1]) - 1].action_type = "REMOVED"

\* A call with an item listed twice has raised on a position that had two
\* rows: nothing was written.
C23_WitnessRaised ==
    /\ ops = MaxOps
    /\ Cardinality({r \in position_software : r.position_id = 1}) = 2
    /\ <<"UPDATE", "equip.position_software_bulk">> \notin DOMAIN audit_log
    /\ <<"UPDATE", "equip.position_hardware_bulk">> \notin DOMAIN audit_log

\* The (item_type, item_id) entries with their quantities that the events
\* of a position's requirement history produce when replayed in insertion
\* order on top of the entries given.
RECURSIVE Replay(_, _)
Replay(entries, events) ==
    IF events = <<>> THEN entries
    ELSE LET e == events[1]
             key == <<e.item_type, e.item_id>>
             next == CASE e.action_type = "ADDED" ->
                              [k \in DOMAIN entries \cup {key} |->
                                  IF k = key THEN e.quantity ELSE entries[k]]
                       [] e.action_type = "MODIFIED" ->
                              [k \in DOMAIN entries |->
                                  IF k = key THEN e.quantity ELSE entries[k]]
                       [] OTHER ->
                              [k \in DOMAIN entries \ {key} |-> entries[k]]
         IN  Replay(next, Tail(events))

\* The requirement rows of a position as (item_type, item_id) entries.
CurrentEntries(p) ==
    LET hw == {r \in position_hardware : r.position_id = p}
        sw == {r \in position_software : r.position_id = p}
        keys == {<<"hardware", r.hardware_id>> : r \in hw}
                \cup {<<"software", r.software_id>> : r \in sw}
    IN  [k \in keys |->
            IF k[1] = "hardware"
            THEN (CHOOSE r \in hw : r.hardware_id = k[2]).quantity
            ELSE (CHOOSE r \in sw : r.software_id = k[2]).quantity]

HistoryOf(p) ==
    IF p \in DOMAIN requirement_history THEN requirement_history[p] ELSE <<>>

\* C24: in every committed state, replaying a position's requirement
\* history in insertion order (ADDED creates the entry, MODIFIED overwrites
\* its quantity, REMOVED deletes it) gives exactly the position's current
\* hardware and software rows with their quantities.
C24_HistoryReplaysToRows ==
    \A p \in DOMAIN position : Replay(<<>>, HistoryOf(p)) = CurrentEntries(p)

\* Two operations have run on position 1 after its first row was added: a
\* replacement removed the per-user product and added the tenant product,
\* and the tenant product's quantity was then modified.
C24_Witness ==
    /\ ops = MaxOps
    /\ Len(HistoryOf(1)) = 4
    /\ HistoryOf(1)[2].action_type = "REMOVED"
    /\ HistoryOf(1)[3].action_type = "ADDED"
    /\ HistoryOf(1)[4].action_type = "MODIFIED"
    /\ HistoryOf(1)[4].quantity # HistoryOf(1)[3].quantity

\* Session s ends its copy in this step.
CopyEnds(s) ==
    /\ session[s].pc = "deleted"
    /\ session[s].table = "position_software"
    /\ session'[s].pc = "idle"

\* C25: a copy is whole.  When a copy ends without raising, the target's
\* software rows are the items read from the source, with their
\* quantities; and a copy whose software half raises has not changed the
\* target's hardware rows either, so that no copy ends with one half done.
C25_CopyIsWhole ==
    [][\A s \in Sessions :
          CopyEnds(s) =>
              LET target == session[s].id
                  items == session[s].attrs.software
                  deleted == session[s].loaded.software
              IN  IF set_position_software_raises(target, items, deleted) = "ok"
                  THEN {r \in position_software' : r.position_id = target}
                           = SubmittedSoftware(target, items)
                  ELSE HardwareItems(session[s].loaded.hardware)
                           = session[s].attrs.hardware]_vars

\* The number of committed audit.audit_log rows of a kind.
AuditCount(log, action_type, entity_type) ==
    IF <<action_type, entity_type>> \in DOMAIN log
    THEN log[<<action_type, entity_type>>] ELSE 0

\* C26: a successful operation leaves its audit entry committed.  A step
\* that changes a requirement table commits one more audit.audit_log row,
\* and a copy that ends without raising has committed its COPY entry.
C26_AuditEntryCommitted ==
    [][/\ (position_hardware' # position_hardware
           \/ position_software' # position_software)
          => \E k \in DOMAIN audit_log' :
                 AuditCount(audit_log', k[1], k[2])
                     = AuditCount(audit_log, k[1], k[2]) + 1
       /\ \A s \in Sessions :
              (/\ CopyEnds(s)
               /\ set_position_software_raises(session[s].id,
                                               session[s].attrs.software,
                                               session[s].loaded.software) = "ok")
              => AuditCount(audit_log', "COPY", "position_requirements")
                     = AuditCount(audit_log, "COPY", "position_requirements") + 1]_vars

\* What a step does to the rows of audit.hr_sync_log: a new row is
\* 'started'; a 'started' row stays or ends as 'completed' or 'failed'; an
\* ended row never changes; the step that fails a row changes no
\* organization, employee or user row and no audit row, and stores the
\* message; the step that completes a row commits the SYNC audit entry;
\* and no other step of a run changes the organization or the users.
SyncLogStep ==
    /\ Len(hr_sync_log') >= Len(hr_sync_log)
    /\ \A i \in (Len(hr_sync_log) + 1)..Len(hr_sync_log') :
           hr_sync_log'[i].status = "started"
    /\ \A i \in 1..Len(hr_sync_log) :
           LET old == hr_sync_log[i]
               new == hr_sync_log'[i]
           IN  /\ old.status \in {"completed", "failed"} => new = old
               /\ new.status \in {"started", "completed", "failed"}
               /\ (old.status = "started" /\ new.status = "failed")
                  => /\ UNCHANGED <<orgVars, userVars, audit_log>>
                     /\ new.error_message # "None"
               /\ (old.status = "started" /\ new.status = "completed")
                  => /\ new.error_message = "None"
                     /\ AuditCount(audit_log', "SYNC", "org.hr_sync")
                            = AuditCount(audit_log, "SYNC", "org.hr_sync") + 1
    /\ (orgVars' # orgVars \/ userVars' # userVars)
       => \E i \in 1..Len(hr_sync_log) :
              /\ hr_sync_log[i].status = "started"
              /\ hr_sync_log'[i].status = "completed"

\* C27: every run_full_sync has one row in audit.hr_sync_log, created as
\* 'started', that ends as 'completed' or as 'failed' and never changes
\* afterwards; a failed run leaves the organization, employees and users
\* as they were and its row carries the error message; a run that succeeds
\* commits its changes, the completed row and the SYNC audit entry in one
\* step.
C27_SyncLogEndsOnce ==
    /\ [][SyncLogStep]_vars
    /\ \A i \in 1..MaxOps :
           (Len(hr_sync_log) >= i /\ hr_sync_log[i].status = "started")
           ~> (Len(hr_sync_log) >= i
               /\ hr_sync_log[i].status \in {"completed", "failed"})

\* One run has failed and another has completed: the log has a 'failed'
\* row with its message and a 'completed' row, an employee and its user
\* exist, and a department the completed run's response left out is
\* inactive.
C27_Witness ==
    /\ \E i \in 1..Len(hr_sync_log) :
           hr_sync_log[i].status = "failed" /\ hr_sync_log[i].error_message # "None"
    /\ \E i \in 1..Len(hr_sync_log) : hr_sync_log[i].status = "completed"
    /\ \E d \in DOMAIN department : ~department[d].is_active
    /\ \E u \in DOMAIN user : user[u].employee_id \in DOMAIN employee
    /\ AuditCount(audit_log, "SYNC", "org.hr_sync") = 1

\* The rows of a table that a step makes inactive had codes that a
\* non-empty response leaves out, and no row is deleted.
SoftDeletesOnlyOmitted(old, new, codes) ==
    /\ DOMAIN old \subseteq DOMAIN new
    /\ \A k \in DOMAIN old :
           (old[k].is_active /\ ~new[k].is_active) => (codes # {} /\ k \notin codes)

\* The records with these codes are active.
PresentIsActive(new, codes) ==
    \A k \in codes : k \in DOMAIN new /\ new[k].is_active

\* Session s commits its run in this step.
SyncCommits(s) ==
    /\ session[s].pc = "started"
    /\ session[s].table = "hr_sync_log"
    /\ hr_sync_log'[session[s].id].status = "completed"

SyncNeverDeletes(api) ==
    /\ SoftDeletesOnlyOmitted(department, department', api.departments)
    /\ SoftDeletesOnlyOmitted(division, division', DOMAIN api.divisions)
    /\ SoftDeletesOnlyOmitted(position, position', DOMAIN api.positions)
    /\ SoftDeletesOnlyOmitted(employee, employee', DOMAIN api.employees)

DepartmentsInScope(u) ==
    {d \in DOMAIN department :
        \/ d \in scoped_department_ids(u)
        \/ \E v \in scoped_division_ids(u) \cap DOMAIN division :
               division[v].department_id = d}

DivisionsInScope(u) ==
    {v \in DOMAIN division :
        \/ division[v].department_id \in scoped_department_ids(u)
        \/ v \in scoped_division_ids(u)}

PositionsInScope(u) ==
    {p \in DOMAIN position : position[p].division_id \in DivisionsInScope(u)}

\* C21: for a user without the organization scope, get_departments,
\* get_divisions and get_positions return only entities inside the user's
\* scopes, none at all for a user with no scope row, and every position
\* get_positions returns passes user_can_access_position.
C21_ScopedQueriesStayInScope ==
    \A u \in DOMAIN user :
        ~has_org_scope(u)
        => /\ get_departments(u) \subseteq DepartmentsInScope(u)
           /\ get_divisions(u) \subseteq DivisionsInScope(u)
           /\ get_positions(u) \subseteq PositionsInScope(u)
           /\ user[u].scopes = {}
              => /\ get_departments(u) = {}
                 /\ get_divisions(u) = {}
                 /\ get_positions(u) = {}
           /\ \A p \in get_positions(u) : user_can_access_position(u, p)

\* C29: in every committed state each hardware type, hardware item and
\* software product has an open cost-history record whose snapshot equals
\* the item's current cost: estimated_cost, or cost_per_license and
\* total_cost for software.
C29_OpenRecordMatchesCurrentCost ==
    /\ \A t \in DOMAIN hardware_type :
           \E r \in hardware_type_cost_history :
               /\ r.hardware_type_id = t
               /\ r.end_date = NULL
               /\ r.estimated_cost = hardware_type[t].estimated_cost
    /\ \A h \in DOMAIN hardware :
           \E r \in hardware_cost_history :
               /\ r.hardware_id = h
               /\ r.end_date = NULL
               /\ r.estimated_cost = hardware[h].estimated_cost
    /\ \A i \in DOMAIN software :
           \E r \in software_cost_history :
               /\ r.software_id = i
               /\ r.end_date = NULL
               /\ r.cost_per_license = software[i].cost_per_license
               /\ r.total_cost = software[i].total_cost

(***************************************************************************)
(* The organization rollup of a tenant license covered organization-wide   *)
(* (SpecOrgWide).                                                          *)
(***************************************************************************)

\* add_software_requirement(p, TenantId, 1) recorded for the positions 1..n.
RECURSIVE RequiredByEach(_, _)
RequiredByEach(history, n) ==
    IF n = 0 THEN history
    ELSE _record_requirement_history(RequiredByEach(history, n - 1), n,
                                     "software", TenantId, "ADDED", 1)

\* The tables once the tenant item has been given one organization-scope
\* coverage row and has been added to every position: the organization
\* and catalog of InitCost, the license costing 9000.00.
InitOrgWide ==
    /\ InitOrg
    /\ employee = <<>>
    /\ user = <<>>
    /\ software_type = <<>>
    /\ hr_sync_log = <<>>
    /\ hardware = [h \in HardwareIds |->
                      [estimated_cost |-> 120000, is_active |-> TRUE]]
    /\ software = (PerUserId :> [license_model |-> "per_user",
                                 cost_per_license |-> 20000,
                                 total_cost |-> 0, is_active |-> TRUE])
               @@ (TenantId :> [license_model |-> "tenant",
                                cost_per_license |-> 0,
                                total_cost |-> 900000, is_active |-> TRUE])
    /\ position_hardware = {}
    /\ position_software = {[position_id |-> p, software_id |-> TenantId,
                             quantity |-> 1] : p \in Positions}
    /\ software_coverage = {Coverage(TenantId, "organization", NULL, NULL, NULL)}
    /\ requirement_history = RequiredByEach(<<>>, NumPositions)
    /\ audit_log = log_changes(<<>>, "CREATE", "equip.position_software",
                               NumPositions)
    /\ InitHistIdle
    /\ ops = 0

SpecOrgWide == InitOrgWide /\ [][NextCost]_vars

\* The positions calculate_organization_costs includes: the active
\* positions of the active divisions of the active departments.
RolledUpPositions ==
    {p \in DOMAIN position :
        /\ position[p].is_active
        /\ position[p].division_id \in DOMAIN division
        /\ division[position[p].division_id].is_active
        /\ division[position[p].division_id].department_id \in ActiveDepartments}

\* The position_total of the item's lines in the position's summary.
ItemPositionTotal(position_id, software_id) ==
    LET lines == calculate_position_cost(position_id).software_lines
        mine == SelectSeq(lines, LAMBDA l : l.software_id = software_id)
    IN  DecSum([i \in 1..Len(mine) |-> mine[i].position_total])

\* C30: when the tenant item has a single coverage row, of organization
\* scope, every active position requires it and its total_cost is a
\* multiple of the covered headcount, the item's position_total summed over
\* the positions included in calculate_organization_costs is its total_cost.
C30_OrganizationRollupRecoversLicense ==
    LET rows == coverages(TenantId)
        active == {p \in DOMAIN position : position[p].is_active}
        rolled == IdSeq(RolledUpPositions)
        total_cost == software[TenantId].total_cost
    IN  (/\ Cardinality(rows) = 1
         /\ \A cov \in rows : cov.scope_type = "organization"
         /\ \A p \in active :
                \E r \in position_software :
                    r.position_id = p /\ r.software_id = TenantId
         /\ total_cost # NULL
         /\ covered_headcount(TenantId) > 0
         /\ total_cost % covered_headcount(TenantId) = 0
         /\ calculate_organization_costs.raised = "None")
        => DecSum([i \in 1..Len(rolled) |->
                      ItemPositionTotal(rolled[i], TenantId)])
               = CostDec(total_cost)

====
